---- MODULE Spec2Model ----
(***************************************************************************)
(* Inventory query engine of bas_world: the record store loaded by         *)
(* app/services/data_loader.py, the filter / sort / truncate pipeline of   *)
(* app/tools/search_inventory.py, and its lookup and comparison tools.     *)
(*                                                                         *)
(* Conventions of the model                                                *)
(*   - an optional value (Python None / pandas NaN) is None == <<>>, a     *)
(*     known value v is Some(v) == <<v>>;                                  *)
(*   - a text is a sequence of one-character strings, so that case         *)
(*     folding, trimming, substring and regular-expression search are      *)
(*     computed character by character as the code computes them;          *)
(*   - a raw CSV flag cell is a tagged value (nan / bool / text);          *)
(*   - the filters_json text of a tool call is represented by the value     *)
(*     json.loads returns for it (a tagged JSON value), or by the fact      *)
(*     that json.loads raises on it;                                        *)
(*   - what an operation returns is a record: error (an error object was    *)
(*     returned), message (its fixed text), count, vehicles, not_found;     *)
(*     get_unique_values adds its list as values, GET /meta.json its        *)
(*     dictionary as meta;                                                  *)
(*   - a float (the price bounds of SearchFilters) is a record num / den    *)
(*     in lowest terms, den = 0 for inf, -inf and nan; the cells of the     *)
(*     frame are integer-valued;                                            *)
(*   - load_inventory is modelled twice: as one step (LoadInventory) where  *)
(*     calls do not overlap, and statement by statement (the Load* steps)   *)
(*     where threads interleave;                                            *)
(*   - a conversation message is a record of its type, its tool calls (for  *)
(*     an AI message), its tool name and its parsed content (for a tool     *)
(*     message).                                                            *)
(***************************************************************************)
EXTENDS Integers, Sequences, FiniteSets, TLC

VARIABLES
    csv_file,     \* rows of data/trekkers.csv as pd.read_csv parses them
    df,           \* data_loader._df: None until loaded, then Some(rows)
    numpy_build,  \* the argsort this numpy build and CPU dispatch to
    op,           \* the operation that ran last
    request,      \* the argument the last operation was called with
    filters,      \* the SearchFilters of the last search (None if none)
    results_df,   \* positions in df of the rows _apply_filters returned
    response,     \* what the last operation returned to its caller
    calls,        \* the threads inside load_inventory / get_dataframe
    reads,        \* how often those threads have executed pd.read_csv
    node,         \* the node of the agent graph that runs next
    messages,     \* the messages of the conversation thread
    cards         \* the vehicle cards of the chat response

vars == <<csv_file, df, numpy_build, op, request, filters, results_df, response,
          calls, reads, node, messages, cards>>

-----------------------------------------------------------------------------
(* Optional values                                                         *)

None == <<>>
Some(v) == <<v>>
Val(o) == o[1]

Range(s) == {s[i] : i \in 1..Len(s)}

Min(a, b) == IF a <= b THEN a ELSE b
Max(a, b) == IF a >= b THEN a ELSE b

\* dict(base, **over): the keys of over replace those of base.
Merge(base, over) ==
    [k \in DOMAIN base |-> IF k \in DOMAIN over THEN over[k] ELSE base[k]]

-----------------------------------------------------------------------------
(* Texts: str.upper, str.lower, str.strip, "in", re.search                 *)

\* A text is a sequence of characters, each a one-character string. The
\* characters are those of Latin-1 that a string of this module can hold;
\* the three characters beyond Latin-1 that str.upper and str.lower reach
\* from there are written by their code points: "U+0178", "U+039C", "U+03BC".
LowerChars == <<"a","b","c","d","e","f","g","h","i","j","k","l","m",
                "n","o","p","q","r","s","t","u","v","w","x","y","z",
                "à","á","â","ã","ä","å","æ","ç","è","é","ê","ë","ì",
                "í","î","ï","ð","ñ","ò","ó","ô","õ","ö","ø","ù","ú",
                "û","ü","ý","þ","ÿ","U+03BC">>
UpperChars == <<"A","B","C","D","E","F","G","H","I","J","K","L","M",
                "N","O","P","Q","R","S","T","U","V","W","X","Y","Z",
                "À","Á","Â","Ã","Ä","Å","Æ","Ç","È","É","Ê","Ë","Ì",
                "Í","Î","Ï","Ð","Ñ","Ò","Ó","Ô","Õ","Ö","Ø","Ù","Ú",
                "Û","Ü","Ý","Þ","U+0178","U+039C">>

UpperOf == [c \in {LowerChars[i] : i \in 1..Len(LowerChars)} |->
               UpperChars[CHOOSE i \in 1..Len(LowerChars) : LowerChars[i] = c]]

LowerOf == [c \in {UpperChars[i] : i \in 1..Len(UpperChars)} |->
               LowerChars[CHOOSE i \in 1..Len(UpperChars) : UpperChars[i] = c]]

\* c.upper(): one character, two for the sharp s.
UpperChar(c) ==
    IF c \in DOMAIN UpperOf THEN <<UpperOf[c]>>
    ELSE IF c = "ß" THEN <<"S", "S">>
    ELSE IF c = "µ" THEN <<"U+039C">>
    ELSE <<c>>

LowerChar(c) == IF c \in DOMAIN LowerOf THEN LowerOf[c] ELSE c

RECURSIVE UpperFrom(_, _)
UpperFrom(s, i) ==
    IF i > Len(s) THEN <<>> ELSE UpperChar(s[i]) \o UpperFrom(s, i + 1)

\* str.upper()
Upper(s) ==
    IF \A i \in 1..Len(s) : s[i] # "ß"
    THEN [i \in 1..Len(s) |-> UpperChar(s[i])[1]]
    ELSE UpperFrom(s, 1)

\* str.lower()
Lower(s) == [i \in 1..Len(s) |-> LowerChar(s[i])]

\* The characters c with c.isspace().
PyWhiteSpace == {"\t", "\n", "", "\f", "\r", "", "", "", "", " ", "", " "}

\* str.strip(): drop the leading and the trailing white space.
Strip(s) ==
    LET keep == {i \in 1..Len(s) : s[i] \notin PyWhiteSpace}
    IN  IF keep = {} THEN <<>>
        ELSE LET lo == CHOOSE i \in keep : \A j \in keep : i <= j
                 hi == CHOOSE i \in keep : \A j \in keep : i >= j
             IN  SubSeq(s, lo, hi)

\* Python's `sub in s`: literal substring.
Contains(sub, s) ==
    \E i \in 1..(Len(s) + 1) :
        /\ i + Len(sub) - 1 <= Len(s)
        /\ \A k \in 1..Len(sub) : s[i + k - 1] = sub[k]

\* "|".join(words)
RECURSIVE JoinBar(_)
JoinBar(words) ==
    IF Len(words) = 0 THEN <<>>
    ELSE IF Len(words) = 1 THEN words[1]
    ELSE words[1] \o <<"|">> \o JoinBar(Tail(words))

\* The characters in code-point order.
CodePoints ==
    <<"","","\t","\n","","\f","\r","","","",""," ","!",
      "\"","#","$","%","&","'","(",")","*","+",",","-",".",
      "/","0","1","2","3","4","5","6","7","8","9",":",";",
      "<","=",">","?","@","A","B","C","D","E","F","G","H",
      "I","J","K","L","M","N","O","P","Q","R","S","T","U",
      "V","W","X","Y","Z","[","\\","]","^","_","a","b","c",
      "d","e","f","g","h","i","j","k","l","m","n","o","p",
      "q","r","s","t","u","v","w","x","y","z","{","|","}",
      "~",""," ","¡","¢","£","¤","¥","¦","§","¨","©","ª",
      "«","¬","­","®","¯","°","±","²","³","´","µ","¶","·",
      "¸","¹","º","»","¼","½","¾","¿","À","Á","Â","Ã","Ä",
      "Å","Æ","Ç","È","É","Ê","Ë","Ì","Í","Î","Ï","Ð","Ñ",
      "Ò","Ó","Ô","Õ","Ö","×","Ø","Ù","Ú","Û","Ü","Ý","Þ",
      "ß","à","á","â","ã","ä","å","æ","ç","è","é","ê","ë",
      "ì","í","î","ï","ð","ñ","ò","ó","ô","õ","ö","÷","ø",
      "ù","ú","û","ü","ý","þ","ÿ","U+0178","U+039C","U+03BC">>

OrdOf == [c \in {CodePoints[i] : i \in 1..Len(CodePoints)} |->
             CHOOSE i \in 1..Len(CodePoints) : CodePoints[i] = c]

Ord(c) == OrdOf[c]

DigitChars == <<"0","1","2","3","4","5","6","7","8","9">>

IsDigit(c) == \E i \in 1..Len(DigitChars) : DigitChars[i] = c

DigitValue(c) == (CHOOSE i \in 1..Len(DigitChars) : DigitChars[i] = c) - 1

RECURSIVE DigitsValue(_)
DigitsValue(s) ==
    IF Len(s) = 0 THEN 0
    ELSE 10 * DigitsValue(SubSeq(s, 1, Len(s) - 1)) + DigitValue(s[Len(s)])

-----------------------------------------------------------------------------
(* Regular expressions: re.compile and Pattern.search                      *)

\* The characters \w matches: c.isalnum() or "_".
WordChars ==
    {LowerChars[i] : i \in 1..Len(LowerChars)} \cup
    {UpperChars[i] : i \in 1..Len(UpperChars)} \cup
    {DigitChars[i] : i \in 1..Len(DigitChars)} \cup
    {"_", "ª", "²", "³", "µ", "¹", "º", "¼", "½", "¾", "ß"}

AsciiLetters ==
    {"A", "B", "C", "D", "E", "F", "G", "H", "I", "J", "K", "L", "M",
      "N", "O", "P", "Q", "R", "S", "T", "U", "V", "W", "X", "Y", "Z",
      "a", "b", "c", "d", "e", "f", "g", "h", "i", "j", "k", "l", "m",
      "n", "o", "p", "q", "r", "s", "t", "u", "v", "w", "x", "y", "z"}

\* The characters the escapes \a \f \n \r \t \v stand for.
ReControl ==
    [e \in {"a", "f", "n", "r", "t", "v"} |->
        IF e = "a" THEN "" ELSE IF e = "f" THEN "\f"
        ELSE IF e = "n" THEN "\n" ELSE IF e = "r" THEN "\r"
        ELSE IF e = "t" THEN "\t" ELSE ""]

\* The nodes of a parsed pattern.
ReEmpty == [t |-> "empty"]
ReSet(chars, ranges, classes, neg) ==
    [t |-> "set", chars |-> chars, ranges |-> ranges, classes |-> classes,
     neg |-> neg]
ReLit(c) == ReSet({c}, {}, {}, FALSE)
ReAny == ReSet({"\n"}, {}, {}, TRUE)
ReClass(k) == ReSet({}, {}, {k}, FALSE)
ReAt(where) == [t |-> "at", where |-> where]
ReCat(a, b) == [t |-> "cat", a |-> a, b |-> b]
ReAlt(a, b) == [t |-> "alt", a |-> a, b |-> b]
ReRep(a, lo, hi) == [t |-> "rep", a |-> a, lo |-> lo, hi |-> hi]
ReGroup(a) == [t |-> "group", a |-> a]
ReLook(a, neg) == [t |-> "look", a |-> a, neg |-> neg]

\* The outcome of a parsing step: "ok" with the node read and the position
\* after it; "error" where the parser raises re.error; "unsupported" for a
\* construct this model does not cover.
ReOk(tree, pos) == [st |-> "ok", node |-> tree, pos |-> pos]
ReFail(st) == [st |-> st]

\* The character at position i, "" past the end.
ReAtChar(pat, i) == IF i <= Len(pat) THEN pat[i] ELSE ""

\* The end of the run of digits that starts at position i.
ReDigitsEnd(pat, i) ==
    LET stop == {j \in i..(Len(pat) + 1) : ~IsDigit(ReAtChar(pat, j))}
    IN  CHOOSE j \in stop : \A k \in stop : j <= k

\* The bounds read from "{lo}", "{lo,}", "{,hi}" or "{lo,hi}" at position i,
\* where the first run of digits ends before a and the second before b.
ReRepeatBounds(pat, i, a, b) ==
    LET lo == SubSeq(pat, i + 1, a - 1)
        hi == IF ReAtChar(pat, a) = "," THEN SubSeq(pat, a + 1, b - 1) ELSE lo
    IN  IF ReAtChar(pat, i + 1) = "}" \/ ReAtChar(pat, b) # "}"
        THEN [is |-> FALSE]
        ELSE [is |-> TRUE,
              lo |-> IF lo = <<>> THEN 0 ELSE DigitsValue(lo),
              hi |-> IF hi = <<>> THEN -1 ELSE DigitsValue(hi),
              pos |-> b + 1]

ReRepeatSpecFrom(pat, i, a) ==
    ReRepeatBounds(pat, i, a,
                   IF ReAtChar(pat, a) = "," THEN ReDigitsEnd(pat, a + 1) ELSE a)

\* "{m}", "{m,}", "{,n}", "{m,n}" at position i; "{}" and a brace that does
\* not close this way are literal text. hi = -1: no upper limit.
ReRepeatSpec(pat, i) == ReRepeatSpecFrom(pat, i, ReDigitsEnd(pat, i + 1))

ReQuantifierOf(pat, i, c) ==
    IF c = "*" THEN [is |-> TRUE, lo |-> 0, hi |-> -1, pos |-> i + 1]
    ELSE IF c = "+" THEN [is |-> TRUE, lo |-> 1, hi |-> -1, pos |-> i + 1]
    ELSE IF c = "?" THEN [is |-> TRUE, lo |-> 0, hi |-> 1, pos |-> i + 1]
    ELSE IF c = "{" THEN ReRepeatSpec(pat, i)
    ELSE [is |-> FALSE]

\* The quantifier at position i, if there is one.
ReQuantifier(pat, i) == ReQuantifierOf(pat, i, ReAtChar(pat, i))

ReClassEscapeOf(i, e) ==
    IF e = "" THEN ReFail("error")
    ELSE IF e \in {"d", "D", "w", "W", "s", "S"}
    THEN [st |-> "ok", lit |-> FALSE, c |-> e, pos |-> i + 2]
    ELSE IF e = "b" THEN [st |-> "ok", lit |-> TRUE, c |-> "", pos |-> i + 2]
    ELSE IF e \in DOMAIN ReControl
    THEN [st |-> "ok", lit |-> TRUE, c |-> ReControl[e], pos |-> i + 2]
    ELSE IF IsDigit(e) \/ e \in {"x", "u", "U", "N"} THEN ReFail("unsupported")
    ELSE IF e \in AsciiLetters THEN ReFail("error")
    ELSE [st |-> "ok", lit |-> TRUE, c |-> e, pos |-> i + 2]

\* An escape inside [...]: a character, or one of the classes \d \D \w \W
\* \s \S. Octal, hexadecimal, \u, \U and \N escapes are not covered.
ReClassEscape(pat, i) == ReClassEscapeOf(i, ReAtChar(pat, i + 1))

\* One member of a [...] at position j: a character or an escape.
ReSetMember(pat, j) ==
    IF ReAtChar(pat, j) = "\\" THEN ReClassEscape(pat, j)
    ELSE [st |-> "ok", lit |-> TRUE, c |-> ReAtChar(pat, j), pos |-> j + 1]

ReSetAdd(set, item) ==
    IF item.lit THEN [set EXCEPT !.chars = @ \cup {item.c}]
    ELSE [set EXCEPT !.classes = @ \cup {item.c}]

RECURSIVE ReSetItems(_, _, _, _)
RECURSIVE ReSetNext(_, _, _)
RECURSIVE ReSetRange(_, _, _, _)

\* The range one-two: two characters in order.
ReSetRange(pat, set, one, two) ==
    IF two.st # "ok" THEN ReFail(two.st)
    ELSE IF ~one.lit \/ ~two.lit THEN ReFail("error")
    ELSE IF Ord(two.c) < Ord(one.c) THEN ReFail("error")
    ELSE ReSetItems(pat, two.pos, FALSE,
                    [set EXCEPT !.ranges = @ \cup {<<one.c, two.c>>}])

\* After the member one: a "-" begins a range unless the "]" follows it.
ReSetNext(pat, set, one) ==
    IF one.st # "ok" THEN ReFail(one.st)
    ELSE IF ReAtChar(pat, one.pos) # "-"
    THEN ReSetItems(pat, one.pos, FALSE, ReSetAdd(set, one))
    ELSE IF ReAtChar(pat, one.pos + 1) = "" THEN ReFail("error")
    ELSE IF ReAtChar(pat, one.pos + 1) = "]"
    THEN ReOk([ReSetAdd(set, one) EXCEPT !.chars = @ \cup {"-"}], one.pos + 2)
    ELSE ReSetRange(pat, set, one, ReSetMember(pat, one.pos + 1))

\* The members of a [...] from position j on; `first`: no member read yet,
\* so a "]" here is a member.
ReSetItems(pat, j, first, set) ==
    IF ReAtChar(pat, j) = "" THEN ReFail("error")
    ELSE IF ReAtChar(pat, j) = "]" /\ ~first THEN ReOk(set, j + 1)
    ELSE ReSetNext(pat, set, ReSetMember(pat, j))

\* "[...]" at position i.
ReParseSet(pat, i) ==
    IF ReAtChar(pat, i + 1) = "^"
    THEN ReSetItems(pat, i + 2, TRUE, ReSet({}, {}, {}, TRUE))
    ELSE ReSetItems(pat, i + 1, TRUE, ReSet({}, {}, {}, FALSE))

ReParseEscapeOf(i, e) ==
    IF e = "" THEN ReFail("error")
    ELSE IF e \in {"d", "D", "w", "W", "s", "S"} THEN ReOk(ReClass(e), i + 2)
    ELSE IF e \in {"b", "B", "A", "Z"} THEN ReOk(ReAt(e), i + 2)
    ELSE IF e \in DOMAIN ReControl THEN ReOk(ReLit(ReControl[e]), i + 2)
    ELSE IF IsDigit(e) \/ e \in {"x", "u", "U", "N"} THEN ReFail("unsupported")
    ELSE IF e \in AsciiLetters THEN ReFail("error")
    ELSE ReOk(ReLit(e), i + 2)

\* An escape outside [...]. Back-references and octal, hexadecimal, \u, \U
\* and \N escapes are not covered.
ReParseEscape(pat, i) == ReParseEscapeOf(i, ReAtChar(pat, i + 1))

\* The extensions "(?..." that are not covered: named groups, comments,
\* look-behind, conditionals, atomic groups, inline flags.
ReExtensions ==
    {"P", "#", "<", "(", ">", "a", "i", "L", "m", "s", "u", "x", "-"}

RECURSIVE ReParseAlt(_, _)
RECURSIVE ReAltNext(_, _)
RECURSIVE ReParseCat(_, _)
RECURSIVE ReCatNext(_, _)
RECURSIVE ReParseRepeat(_, _)
RECURSIVE ReParseAtom(_, _)
RECURSIVE ReParseGroup(_, _)
RECURSIVE ReGroupOf(_, _, _, _)

\* The group whose content r has been read: the ")" must follow.
ReGroupEnd(pat, ext, kind, r) ==
    IF r.st # "ok" THEN r
    ELSE IF ReAtChar(pat, r.pos) # ")" THEN ReFail("error")
    ELSE IF ext /\ kind # ":" THEN ReOk(ReLook(r.node, kind = "!"), r.pos + 1)
    ELSE ReOk(ReGroup(r.node), r.pos + 1)

ReGroupOf(pat, i, ext, kind) ==
    IF ext /\ kind \in ReExtensions THEN ReFail("unsupported")
    ELSE IF ext /\ kind \notin {":", "=", "!"} THEN ReFail("error")
    ELSE ReGroupEnd(pat, ext, kind,
                    ReParseAlt(pat, IF ext THEN i + 3 ELSE i + 1))

\* "(...)", "(?:...)", "(?=...)", "(?!...)" at position i.
ReParseGroup(pat, i) ==
    ReGroupOf(pat, i, ReAtChar(pat, i + 1) = "?", ReAtChar(pat, i + 2))

\* One item: a character, a set, an assertion or a group. A quantifier with
\* nothing before it raises.
ReParseAtom(pat, i) ==
    IF pat[i] = "." THEN ReOk(ReAny, i + 1)
    ELSE IF pat[i] \in {"^", "$"} THEN ReOk(ReAt(pat[i]), i + 1)
    ELSE IF pat[i] = "(" THEN ReParseGroup(pat, i)
    ELSE IF pat[i] = "[" THEN ReParseSet(pat, i)
    ELSE IF pat[i] = "\\" THEN ReParseEscape(pat, i)
    ELSE IF ReQuantifier(pat, i).is THEN ReFail("error")
    ELSE ReOk(ReLit(pat[i]), i + 1)

\* The item a repeated by the quantifier qt, which ends before position
\* end.
ReRepeated(pat, a, qt, end) ==
    IF a.node.t = "at" THEN ReFail("error")
    ELSE IF qt.hi # -1 /\ qt.hi < qt.lo THEN ReFail("error")
    ELSE IF ReAtChar(pat, qt.pos) = "+" THEN ReFail("unsupported")
    ELSE IF ReQuantifier(pat, end).is THEN ReFail("error")
    ELSE ReOk(ReRep(a.node, qt.lo, qt.hi), end)

ReQuantified(pat, a, qt) ==
    IF ~qt.is THEN a
    ELSE ReRepeated(pat, a, qt,
                    IF ReAtChar(pat, qt.pos) = "?" THEN qt.pos + 1 ELSE qt.pos)

ReRepeatOf(pat, a) ==
    IF a.st # "ok" THEN a ELSE ReQuantified(pat, a, ReQuantifier(pat, a.pos))

\* An item and its quantifier. "^", "$", \b, \B, \A, \Z cannot be repeated,
\* nor can a repeat; a "?" after the quantifier makes it lazy, which does
\* not change whether there is a match. Possessive quantifiers ("*+") are
\* not covered.
ReParseRepeat(pat, i) == ReRepeatOf(pat, ReParseAtom(pat, i))

ReCatEnd(r, rest) ==
    IF rest.st # "ok" THEN rest ELSE ReOk(ReCat(r.node, rest.node), rest.pos)

ReCatNext(pat, r) ==
    IF r.st # "ok" THEN r ELSE ReCatEnd(r, ReParseCat(pat, r.pos))

\* The items up to the next "|", ")" or the end.
ReParseCat(pat, i) ==
    IF ReAtChar(pat, i) \in {"", "|", ")"} THEN ReOk(ReEmpty, i)
    ELSE ReCatNext(pat, ReParseRepeat(pat, i))

ReAltEnd(c, r) ==
    IF r.st # "ok" THEN r ELSE ReOk(ReAlt(c.node, r.node), r.pos)

ReAltNext(pat, c) ==
    IF c.st # "ok" THEN c
    ELSE IF ReAtChar(pat, c.pos) # "|" THEN c
    ELSE ReAltEnd(c, ReParseAlt(pat, c.pos + 1))

\* The alternatives up to the next ")" or the end.
ReParseAlt(pat, i) == ReAltNext(pat, ReParseCat(pat, i))

ReCompiled(pat, r) ==
    IF r.st = "ok" /\ r.pos <= Len(pat) THEN ReFail("error") ELSE r

\* re.compile(pat): the parsed pattern; a ")" without its "(" raises.
re_compile(pat) == ReCompiled(pat, ReParseAlt(pat, 1))

\* re.compile(pat) raises re.error.
ReError(pat) == re_compile(pat).st = "error"

\* The pattern uses a construct outside this model.
ReUnsupported(pat) == re_compile(pat).st = "unsupported"

\* Whether character c is in the set.
ReInClass(k, c) ==
    IF k = "d" THEN IsDigit(c)
    ELSE IF k = "D" THEN ~IsDigit(c)
    ELSE IF k = "w" THEN c \in WordChars
    ELSE IF k = "W" THEN c \notin WordChars
    ELSE IF k = "s" THEN c \in PyWhiteSpace
    ELSE c \notin PyWhiteSpace

ReInSet(set, c) ==
    set.neg #
        (\/ c \in set.chars
         \/ \E r \in set.ranges : Ord(r[1]) <= Ord(c) /\ Ord(c) <= Ord(r[2])
         \/ \E k \in set.classes : ReInClass(k, c))

\* The assertions at position i of s: "^" and \A at the start; \Z at the
\* end; "$" at the end or before a final newline; \b between a word
\* character and a non-word character (or an end), \B elsewhere. On the
\* empty text neither \b nor \B holds.
ReAtHolds(where, s, i) ==
    LET word(k) == k >= 1 /\ k <= Len(s) /\ s[k] \in WordChars
    IN  IF where \in {"^", "A"} THEN i = 1
        ELSE IF where = "Z" THEN i = Len(s) + 1
        ELSE IF where = "$"
        THEN i = Len(s) + 1 \/ (i = Len(s) /\ s[i] = "\n")
        ELSE IF where = "b" THEN Len(s) > 0 /\ word(i - 1) # word(i)
        ELSE Len(s) > 0 /\ word(i - 1) = word(i)

RECURSIVE ReEnds(_, _, _)
RECURSIVE ReRepeat(_, _, _, _, _)

\* lo..hi repetitions of node a from the positions starts.
ReRepeat(a, s, starts, lo, hi) ==
    IF starts = {} \/ hi = 0 THEN starts
    ELSE LET next == ReEnds(a, s, starts)
         IN  IF lo > 0
             THEN ReRepeat(a, s, next, lo - 1, IF hi = -1 THEN -1 ELSE hi - 1)
             ELSE IF hi = -1
             THEN IF next \subseteq starts THEN starts
                  ELSE ReRepeat(a, s, starts \cup next, 0, -1)
             ELSE starts \cup ReRepeat(a, s, next, 0, hi - 1)

\* The positions where a match of the pattern ends that begins at one of the
\* positions starts (a position is the index of the next character).
ReEnds(tree, s, starts) ==
    IF starts = {} THEN {}
    ELSE IF tree.t = "empty" THEN starts
    ELSE IF tree.t = "set"
    THEN {i + 1 : i \in {j \in starts : j <= Len(s) /\ ReInSet(tree, s[j])}}
    ELSE IF tree.t = "at" THEN {i \in starts : ReAtHolds(tree.where, s, i)}
    ELSE IF tree.t = "cat" THEN ReEnds(tree.b, s, ReEnds(tree.a, s, starts))
    ELSE IF tree.t = "alt"
    THEN ReEnds(tree.a, s, starts) \cup ReEnds(tree.b, s, starts)
    ELSE IF tree.t = "group" THEN ReEnds(tree.a, s, starts)
    ELSE IF tree.t = "look"
    THEN {i \in starts : (ReEnds(tree.a, s, {i}) = {}) = tree.neg}
    ELSE ReRepeat(tree.a, s, starts, tree.lo, tree.hi)

\* Pattern.search(s) is not None: a match begins at some position of s.
ReMatch(tree, s) == ReEnds(tree, s, 1..(Len(s) + 1)) # {}

\* re.search(pat, s) is not None, for a pattern that compiles.
ReSearch(pat, s) == ReMatch(re_compile(pat).node, s)

-----------------------------------------------------------------------------
(* Texts that occur in the inventory and in the queries                    *)

T_DAF == <<"D","A","F">>
T_daf == <<"d","a","f">>
T_daf_padded == <<"\t","d","a","f"," ">>
T_MAN == <<"M","A","N">>
T_XF == <<"X","F">>
T_xf == <<"x","f">>
T_XF105 == <<"X","F","1","0","5">>
T_ACTROS == <<"A","C","T","R","O","S">>
T_ACT == <<"A","C","T">>
T_A_dot_T == <<"A",".","T">>
T_4X2 == <<"4","X","2">>
T_4x2 == <<"4","x","2">>
T_6X2 == <<"6","X","2">>
T_AUTOMAAT == <<"A","U","T","O","M","A","A","T">>
T_HANDGESCHAKELD == <<"H","A","N","D","G","E","S","C","H","A","K","E","L","D">>
T_HALFAUTOMAAT == <<"H","A","L","F","A","U","T","O","M","A","A","T">>
T_automatic == <<"a","u","t","o","m","a","t","i","c">>
T_manual == <<"m","a","n","u","a","l">>
T_semi_automatic == <<"s","e","m","i","-","a","u","t","o","m","a","t","i","c">>
T_MANUAL == <<"M","A","N","U","A","L">>
T_Diesel == <<"D","i","e","s","e","l">>
T_lng == <<"l","n","g">>
T_SPACE_CAB == <<"S","P","A","C","E"," ","C","A","B">>
T_GLOBETROTTER == <<"G","L","O","B","E","T","R","O","T","T","E","R">>
T_DAY_CAB == <<"D","A","Y"," ","C","A","B">>
T_L_CAB == <<"L","-","C","A","B">>
T_SLEEPER == <<"S","L","E","E","P","E","R">>
T_sleeper == <<"s","l","e","e","p","e","r">>
T_DAY == <<"D","A","Y">>
T_day_cab == <<"d","a","y"," ","c","a","b">>
T_L_dot_CAB == <<"L",".","C","A","B">>
T_XL_bar_CAB == <<"X","L","|","C","A","B">>
T_SPACE == <<"S","P","A","C","E">>
T_HIGHLINE == <<"H","I","G","H","L","I","N","E">>
T_GIGASPACE == <<"G","I","G","A","S","P","A","C","E">>
T_TOPLINE == <<"T","O","P","L","I","N","E">>
T_SUPER == <<"S","U","P","E","R">>
T_BIGSPACE == <<"B","I","G","S","P","A","C","E">>
T_STREAMSPACE == <<"S","T","R","E","A","M","S","P","A","C","E">>
T_LONG == <<"L","O","N","G">>
T_R_SERIES == <<"R","-","S","E","R","I","E","S">>
T_S_SERIES == <<"S","-","S","E","R","I","E","S">>
T_true == <<"t","r","u","e">>
T_1 == <<"1">>
T_3 == <<"3">>
T_3_lead == <<" ","3">>
T_3_trail == <<"3"," ">>
T_3_0 == <<"3",".","0">>
T_3_5 == <<"3",".","5">>
T_2_5 == <<"2",".","5">>
T_1_000 == <<"1","_","0","0","0">>
T_1e2 == <<"1","e","2">>
T_3_dot == <<"3",".">>
T_plus_minus_3 == <<"+","-","3">>
T_minus_under_1 == <<"-","_","1">>
T_0_minus_1 == <<"0","-","1">>
T_0_minus_01 == <<"0","-","0","1">>
T_1_000_lead == <<" ","1","_","0","0","0">>
T_nan == <<"n","a","n">>
T_yes == <<"y","e","s">>
T_Yes == <<"Y","e","s">>
T_no == <<"n","o">>
T_blank == <<" ">>
T_TRUE_padded == <<"\t","T","R","U","E","\n">>
T_automaat_padded == <<" ","a","u","t","o","m","a","a","t","\t">>
T_Handgeschakeld == <<"H","a","n","d","g","e","s","c","h","a","k","e","l","d">>
T_Automatic_padded == <<" ","A","u","t","o","m","a","t","i","c"," ">>
T_ECO == <<"É","C","O">>
T_Citroen_padded == <<"\t","C","i","t","r","o","ë","n"," ">>
T_citroen == <<"c","i","t","r","o","ë","n">>
T_a_star == <<"a","*">>
T_caret_xf == <<"^","x","f">>
T_open_paren == <<"(">>
T_cab_dollar == <<"c","a","b","$">>
T_open_bracket == <<"[">>

-----------------------------------------------------------------------------
(* app/services/data_loader.py                                             *)

\* A raw flag cell as read_csv yields it: missing, a parsed bool, or a text.
NaN == [kind |-> "nan"]
Bool(b) == [kind |-> "bool", b |-> b]
Text(s) == [kind |-> "text", s |-> s]

\* A stored flag (Python None / True / False) seen as a cell again.
Cell(o) == IF o = None THEN NaN ELSE Bool(Val(o))

\* A variant that reads a missing or empty cell as False.
_parse_bool_MissingIsFalse(val) ==
    IF val.kind = "nan" THEN Some(FALSE)
    ELSE IF val.kind = "text" /\ val.s = <<>> THEN Some(FALSE)
    ELSE IF val.kind = "bool" THEN Some(val.b)
    ELSE Some(Lower(Strip(val.s)) \in {T_true, T_1, T_yes})

\* _parse_bool
_parse_bool(val) ==
    IF val.kind = "nan" THEN None
    ELSE IF val.kind = "text" /\ val.s = <<>> THEN None
    ELSE IF val.kind = "bool" THEN Some(val.b)
    ELSE Some(Lower(Strip(val.s)) \in {T_true, T_1, T_yes})

\* _parse_int, on the integer-valued cells of the numeric columns.
_parse_int(val) == IF val = None THEN None ELSE Some(Val(val))

\* _parse_float, on the integer-valued prices of the price column.
_parse_float(val) == IF val = None THEN None ELSE Some(Val(val))

\* GEARBOX_MAP.get(key, default)
GEARBOX_MAP(key, default) ==
    IF key = T_AUTOMAAT THEN T_automatic
    ELSE IF key = T_HANDGESCHAKELD THEN T_manual
    ELSE IF key = T_HALFAUTOMAAT THEN T_semi_automatic
    ELSE default

\* A variant of the gearbox lambda that looks the raw text up in the map,
\* without strip().upper().
NormGearbox_ExactKey(x) ==
    IF x = None THEN None
    ELSE Some(GEARBOX_MAP(Val(x), Lower(Strip(Val(x)))))

\* The per-column lambdas of load_inventory.
NormGearbox(x) ==
    IF x = None THEN None
    ELSE Some(GEARBOX_MAP(Upper(Strip(Val(x))), Lower(Strip(Val(x)))))

NormLower(x) == IF x = None THEN None ELSE Some(Lower(Strip(Val(x))))

NormUpper(x) == IF x = None THEN None ELSE Some(Upper(Strip(Val(x))))

\* One row of the frame after the normalisation steps of load_inventory.
NormalizeRow(r) ==
    [vehicle_id     |-> r.vehicle_id,
     brand          |-> NormUpper(r.brand),
     model          |-> NormUpper(r.model),
     configuration  |-> NormUpper(r.configuration),
     euro           |-> r.euro,
     gearbox        |-> NormGearbox(r.gearbox),
     fuel           |-> NormLower(r.fuel),
     cabin          |-> NormUpper(r.cabin),
     internet_price |-> r.internet_price,
     power          |-> r.power,
     mileage        |-> r.mileage,
     bed_amount     |-> r.bed_amount,
     is_new         |-> _parse_bool(r.is_new),
     is_damaged     |-> _parse_bool(r.is_damaged),
     retarder       |-> _parse_bool(r.retarder),
     has_airco      |-> _parse_bool(r.has_airco),
     has_hydraulics |-> _parse_bool(r.has_hydraulics)]

\* The frame load_inventory builds from the file and publishes in _df.
load_inventory(csv) == [i \in 1..Len(csv) |-> NormalizeRow(csv[i])]

\* get_dataframe: the loaded frame, loading it first when _df is None.
get_dataframe(d, csv) == IF d = None THEN load_inventory(csv) ELSE Val(d)

\* A variant that always takes the default of row.get("vehicle_id", 0).
_row_to_tractor_head_DefaultId(row) ==
    [vehicle_id     |-> 0,
     brand          |-> row.brand,
     model          |-> row.model,
     configuration  |-> row.configuration,
     euro           |-> _parse_int(row.euro),
     gearbox        |-> row.gearbox,
     fuel           |-> row.fuel,
     cabin          |-> row.cabin,
     internet_price |-> _parse_float(row.internet_price),
     power          |-> _parse_int(row.power),
     mileage        |-> _parse_int(row.mileage),
     bed_amount     |-> _parse_int(row.bed_amount),
     is_new         |-> _parse_bool(Cell(row.is_new)),
     is_damaged     |-> _parse_bool(Cell(row.is_damaged)),
     retarder       |-> _parse_bool(Cell(row.retarder)),
     has_airco      |-> _parse_bool(Cell(row.has_airco)),
     has_hydraulics |-> _parse_bool(Cell(row.has_hydraulics))]

\* _row_to_tractor_head
_row_to_tractor_head(row) ==
    [vehicle_id     |-> row.vehicle_id,
     brand          |-> row.brand,
     model          |-> row.model,
     configuration  |-> row.configuration,
     euro           |-> _parse_int(row.euro),
     gearbox        |-> row.gearbox,
     fuel           |-> row.fuel,
     cabin          |-> row.cabin,
     internet_price |-> _parse_float(row.internet_price),
     power          |-> _parse_int(row.power),
     mileage        |-> _parse_int(row.mileage),
     bed_amount     |-> _parse_int(row.bed_amount),
     is_new         |-> _parse_bool(Cell(row.is_new)),
     is_damaged     |-> _parse_bool(Cell(row.is_damaged)),
     retarder       |-> _parse_bool(Cell(row.retarder)),
     has_airco      |-> _parse_bool(Cell(row.has_airco)),
     has_hydraulics |-> _parse_bool(Cell(row.has_hydraulics))]

\* A variant without the match.empty test that takes iloc[0] of the frame
\* when no row matches.
get_vehicle_by_id_FirstRow(d, vehicle_id) ==
    LET match == SelectSeq([i \in 1..Len(d) |-> i],
                           LAMBDA i : d[i].vehicle_id = vehicle_id)
    IN  IF match = <<>> THEN Some(_row_to_tractor_head(d[1]))
        ELSE Some(_row_to_tractor_head(d[match[1]]))

\* get_vehicle_by_id on the frame d: the first row whose vehicle_id equals
\* the id, converted, or None when no row matches.
get_vehicle_by_id(d, vehicle_id) ==
    LET match == SelectSeq([i \in 1..Len(d) |-> i],
                           LAMBDA i : d[i].vehicle_id = vehicle_id)
    IN  IF match = <<>> THEN None
        ELSE Some(_row_to_tractor_head(d[match[1]]))

\* The columns of the frame, by what their cells hold.
TextColumns == {"brand", "model", "configuration", "gearbox", "fuel", "cabin"}
NumberColumns == {"vehicle_id", "euro", "internet_price", "power", "mileage",
                  "bed_amount"}
FlagColumns == {"is_new", "is_damaged", "retarder", "has_airco", "has_hydraulics"}
Columns == TextColumns \cup NumberColumns \cup FlagColumns

\* a < b on Python strings: by the first character that differs, a proper
\* prefix first.
TextLess(a, b) ==
    \E k \in 1..(Len(a) + 1) :
        /\ k <= Len(b)
        /\ \A j \in 1..(k - 1) : a[j] = b[j]
        /\ k = Len(a) + 1 \/ Ord(a[k]) < Ord(b[k])

\* a < b on the values of a column: texts, numbers, or bools (False < True).
ValueLess(a, b, column) ==
    IF column \in TextColumns THEN TextLess(a, b)
    ELSE IF column \in FlagColumns THEN (~a /\ b)
    ELSE a < b

\* sorted(values)
RECURSIVE Sorted(_, _)
Sorted(values, column) ==
    IF values = {} THEN <<>>
    ELSE LET least == CHOOSE x \in values :
                          \A y \in values \ {x} : ValueLess(x, y, column)
         IN  <<least>> \o Sorted(values \ {least}, column)

\* d[column].dropna(): the known values of a column, row by row.
DropNa(d, column) ==
    IF column = "vehicle_id" THEN [i \in 1..Len(d) |-> d[i].vehicle_id]
    ELSE LET known == SelectSeq(d, LAMBDA row : row[column] # None)
         IN  [i \in 1..Len(known) |-> Val(known[i][column])]

\* get_unique_values(column) on the frame d: [] for a column the frame does
\* not have, otherwise the distinct known values in ascending order.
get_unique_values(d, column) ==
    IF column \notin Columns THEN <<>>
    ELSE Sorted(Range(DropNa(d, column)), column)

\* get_all_vehicles() on the frame d: every row converted, in frame order.
get_all_vehicles(d) == [i \in 1..Len(d) |-> _row_to_tractor_head(d[i])]

-----------------------------------------------------------------------------
(* app/schemas/schemas.py: SearchFilters                                   *)

DefaultLimit == 5

\* SearchFilters(): every field at its declared default.
DefaultFilters ==
    [brand |-> None, model |-> None, configuration |-> None, euro |-> None,
     gearbox |-> None, fuel |-> None, cabin |-> None,
     min_price |-> None, max_price |-> None,
     min_power |-> None, max_power |-> None,
     min_mileage |-> None, max_mileage |-> None,
     is_new |-> None, has_retarder |-> None, has_airco |-> None,
     min_beds |-> None, is_damaged |-> None,
     sort_by |-> Some("price_asc"), limit |-> DefaultLimit]

\* SearchFilters(**fields): the supplied fields over the defaults.
SearchFilters(fields) == Merge(DefaultFilters, fields)

\* A float: the rational num / den in lowest terms with den > 0; den = 0
\* stands for the values that are no rationals, inf (num 1), -inf (num -1)
\* and nan (num 0).
RECURSIVE GCD(_, _)
GCD(a, b) == IF b = 0 THEN a ELSE GCD(b, a % b)

Abs(n) == IF n < 0 THEN 0 - n ELSE n

Ratio(num, den) ==
    LET g == GCD(Abs(num), den)
    IN  [num |-> num \div g, den |-> den \div g]

\* float(n) of an int n.
Float(n) == [num |-> n, den |-> 1]

Inf == [num |-> 1, den |-> 0]
NegInf == [num |-> 0 - 1, den |-> 0]
NanFloat == [num |-> 0, den |-> 0]

\* a >= b and a <= b on floats; every comparison with nan is False.
FloatGe(a, b) ==
    /\ a # NanFloat /\ b # NanFloat
    /\ IF a.den = 0 /\ b.den = 0 THEN a.num >= b.num
       ELSE a.num * b.den >= b.num * a.den

FloatLe(a, b) == FloatGe(b, a)

\* What json.loads(filters_json) yields: a JSON value, or an exception.
\* JFloat(x) is a JSON number written with a fraction or an exponent.
NotJson == [j |-> "invalid"]
JNull == [j |-> "null"]
JInt(n) == [j |-> "int", n |-> n]
JFloat(x) == [j |-> "float", x |-> x]
JStr(s) == [j |-> "str", s |-> s]
JBool(b) == [j |-> "bool", b |-> b]
JList == [j |-> "list"]
JObject(fields) == [j |-> "object", fields |-> fields]

\* The fields of SearchFilters by declared type: Optional[str],
\* Optional[int], Optional[float], Optional[bool]; limit is a plain int.
TextFields == {"brand", "model", "configuration", "gearbox", "fuel", "cabin",
               "sort_by"}
IntFields == {"euro", "min_power", "max_power", "min_mileage", "max_mileage",
              "min_beds"}
FloatFields == {"min_price", "max_price"}
FlagFields == {"is_new", "has_retarder", "has_airco", "is_damaged"}

AllDigits(s) == \A i \in 1..Len(s) : IsDigit(s[i])

RECURSIVE Pow10(_)
Pow10(k) == IF k <= 0 THEN 1 ELSE 10 * Pow10(k - 1)

\* The position of the first character of s that is in the set cs, 0 when
\* there is none.
Find(s, cs) ==
    LET at == {i \in 1..Len(s) : s[i] \in cs}
    IN  IF at = {} THEN 0 ELSE CHOOSE i \in at : \A j \in at : i <= j

\* The number validators trim white space from both ends of a text.
WhiteSpace == {"\t", "\n", "", "\f", "\r", " ", "", " "}

Trim(s) ==
    LET keep == {i \in 1..Len(s) : s[i] \notin WhiteSpace}
    IN  IF keep = {} THEN <<>>
        ELSE LET lo == CHOOSE i \in keep : \A j \in keep : i <= j
                 hi == CHOOSE i \in keep : \A j \in keep : i >= j
             IN  SubSeq(s, lo, hi)

\* One leading "+" is dropped; None when a "-" follows it.
StripPlus(s) ==
    IF Len(s) > 0 /\ s[1] = "+"
    THEN IF Len(s) > 1 /\ s[2] = "-" THEN None ELSE Some(Tail(s))
    ELSE Some(s)

\* Whether the text, its "+" dropped, starts with a "-".
IsNegative(s) == Len(s) > 0 /\ s[1] = "-"

\* A leading "-" is taken off, to be put back in front of the cleaned
\* text; None when another sign follows it.
StripMinus(s) ==
    IF IsNegative(s)
    THEN IF Len(s) > 1 /\ s[2] \in {"-", "+"} THEN None ELSE Some(Tail(s))
    ELSE Some(s)

\* Leading zeros (and underscores among them) are dropped, up to the first
\* digit 1..9 or "-"; the last zero is kept before a "." and the last
\* character when nothing else is left; None when the text starts with
\* anything but a digit or "-", or has another character among its leading
\* zeros.
StripLeadingZeros(s) ==
    IF Len(s) = 0 THEN None
    ELSE IF s[1] = "-" \/ (IsDigit(s[1]) /\ s[1] # "0") THEN Some(s)
    ELSE IF s[1] # "0" THEN None
    ELSE LET stop == {i \in 2..Len(s) : s[i] \notin {"0", "_"}}
         IN  IF stop = {} THEN Some(<<s[Len(s)]>>)
             ELSE LET i == CHOOSE i \in stop : \A j \in stop : i <= j
                  IN  IF IsDigit(s[i]) \/ s[i] = "-"
                      THEN Some(SubSeq(s, i, Len(s)))
                      ELSE IF s[i] = "." THEN Some(SubSeq(s, i - 1, Len(s)))
                      ELSE None

\* A fraction of one or more zeros, and nothing else, is dropped with its
\* ".".
StripDecimalZeros(s) ==
    LET dot == Find(s, {"."})
    IN  IF /\ dot > 0
           /\ dot < Len(s)
           /\ \A j \in (dot + 1)..Len(s) : s[j] = "0"
        THEN SubSeq(s, 1, dot - 1)
        ELSE s

\* The text without its underscores; None (nothing to strip) when it has
\* none, starts or ends with one, or has two in a row.
StripUnderscores(s) ==
    IF \/ Find(s, {"_"}) = 0
       \/ s[1] = "_"
       \/ s[Len(s)] = "_"
       \/ \E i \in 1..(Len(s) - 1) : s[i] = "_" /\ s[i + 1] = "_"
    THEN None
    ELSE Some(SelectSeq(s, LAMBDA c : c # "_"))

\* An integer literal read as an int: an optional "-", then "0" or digits
\* that do not start with "0"; None otherwise ("+3", "03" and "-01" are no
\* integer literals).
ParseInt(s) ==
    LET negative == Len(s) > 0 /\ s[1] = "-"
        digits   == IF negative THEN Tail(s) ELSE s
    IN  IF \/ Len(digits) = 0
           \/ ~AllDigits(digits)
           \/ Len(digits) > 1 /\ digits[1] = "0"
        THEN None
        ELSE Some(IF negative THEN 0 - DigitsValue(digits)
                  ELSE DigitsValue(digits))

\* The text without its underscores when some can be stripped, the text
\* itself otherwise.
WithoutUnderscores(s, plain) == IF plain = None THEN s ELSE Val(plain)

\* The cleaned digits with the "-" that was taken off put back.
WithSign(negative, digits) == IF negative THEN <<"-">> \o digits ELSE digits

\* The steps of the cleaning after the signs: leading zeros, a fraction of
\* zeros, digit-group underscores.
CleanDigits(negative, lead) ==
    IF lead = None THEN None
    ELSE Some(WithSign(negative,
                       WithoutUnderscores(StripDecimalZeros(Val(lead)),
                           StripUnderscores(StripDecimalZeros(Val(lead))))))

CleanUnsigned(negative, rest) ==
    IF rest = None THEN None
    ELSE CleanDigits(negative, StripLeadingZeros(Val(rest)))

CleanSigned(plus) ==
    IF plus = None THEN None
    ELSE CleanUnsigned(IsNegative(Val(plus)), StripMinus(Val(plus)))

\* The text the lax int validator reads in place of a trimmed text that is
\* no plain integer; None when the text cannot be cleaned.
CleanIntStr(s) == CleanSigned(StripPlus(s))

\* The second reading of a text, after cleaning.
ParseCleaned(cleaned) == IF cleaned = None THEN None ELSE ParseInt(Val(cleaned))

\* The first reading of the trimmed text, as an integer literal, and the
\* second when the first fails.
ParseOrClean(s) ==
    IF ParseInt(s) # None THEN ParseInt(s) ELSE ParseCleaned(CleanIntStr(s))

\* The integer a text is read as by the lax int validator, None when the
\* text is no integer: the text is trimmed and read as an integer literal;
\* when that fails, a leading "+" and "-", leading zeros, a fraction of
\* zeros and digit-group underscores are dropped and the rest, behind its
\* "-", is read again. " 3", "3 ", "+3", "3.0", "003" read as 3, "-01" as
\* -1, "1_000" as 1000 and "0-1" as -1; "3.5", "3.", "1e2", "1__0", "+-3",
\* "-_1", "0-01", "" are no integers.
StrAsInt(s) == ParseOrClean(Trim(s))

\* The lax int validator on a JSON value: None when it raises. A JSON
\* float is taken when it is finite and has no fraction.
ValidateInt(v) ==
    IF v.j = "int" THEN Some(v.n)
    ELSE IF v.j = "bool" THEN Some(IF v.b THEN 1 ELSE 0)
    ELSE IF v.j = "float" THEN (IF v.x.den = 1 THEN Some(v.x.num) ELSE None)
    ELSE IF v.j = "str" THEN StrAsInt(v.s)
    ELSE None

\* The exponent of a float literal: an optional sign and one or more
\* digits; None otherwise.
ParseExponent(s) ==
    LET signed == Len(s) > 0 /\ s[1] \in {"-", "+"}
        digits == IF signed THEN Tail(s) ELSE s
    IN  IF Len(digits) = 0 \/ ~AllDigits(digits)
        THEN None
        ELSE Some(IF signed /\ s[1] = "-" THEN 0 - DigitsValue(digits)
                  ELSE DigitsValue(digits))

\* A text read as a float literal: an optional sign; then inf, infinity or
\* nan in any case, or digits with an optional "." among them (at least
\* one digit), optionally followed by e or E, an optional sign and one or
\* more digits. None when the text is no float literal.
ParseFloat(s) ==
    LET signed   == Len(s) > 0 /\ s[1] \in {"-", "+"}
        negative == signed /\ s[1] = "-"
        body     == IF signed THEN Tail(s) ELSE s
        e        == Find(body, {"e", "E"})
        mantissa == IF e = 0 THEN body ELSE SubSeq(body, 1, e - 1)
        exponent == IF e = 0 THEN <<"0">> ELSE SubSeq(body, e + 1, Len(body))
        dot      == Find(mantissa, {"."})
        whole    == IF dot = 0 THEN mantissa ELSE SubSeq(mantissa, 1, dot - 1)
        fraction == IF dot = 0 THEN <<>>
                    ELSE SubSeq(mantissa, dot + 1, Len(mantissa))
        digits   == whole \o fraction
        power    == ParseExponent(exponent)
    IN  IF Lower(body) \in {<<"i","n","f">>, <<"i","n","f","i","n","i","t","y">>}
        THEN Some(IF negative THEN NegInf ELSE Inf)
        ELSE IF Lower(body) = <<"n","a","n">> THEN Some(NanFloat)
        ELSE IF Len(digits) = 0 \/ ~AllDigits(digits) \/ power = None
        THEN None
        ELSE LET m == IF negative THEN 0 - DigitsValue(digits)
                      ELSE DigitsValue(digits)
                 k == Val(power) - Len(fraction)
             IN  Some(IF k >= 0 THEN Float(m * Pow10(k))
                      ELSE Ratio(m, Pow10(0 - k)))

\* The second reading of a text as a float: the text as given, its
\* underscores dropped.
ParseStripped(plain) == IF plain = None THEN None ELSE ParseFloat(Val(plain))

\* The float a text is read as by the lax float validator, None when the
\* text is no float: the trimmed text is read as a float literal and, when
\* that fails, the untrimmed text is read again with its underscores
\* dropped. " 3", "3.0" read as 3.0, "3.5" as 3.5, "1e2" as 100.0 and
\* "1_000" as 1000.0; " 1_000" is no float.
StrAsFloat(s) ==
    IF ParseFloat(Trim(s)) # None THEN ParseFloat(Trim(s))
    ELSE ParseStripped(StripUnderscores(s))

\* The lax float validator on a JSON value: None when it raises.
ValidateFloat(v) ==
    IF v.j = "int" THEN Some(Float(v.n))
    ELSE IF v.j = "bool" THEN Some(Float(IF v.b THEN 1 ELSE 0))
    ELSE IF v.j = "float" THEN Some(v.x)
    ELSE IF v.j = "str" THEN StrAsFloat(v.s)
    ELSE None

\* The texts the lax bool validator reads as True and as False, compared
\* in lower case.
BoolTrueTexts ==
    {<<"1">>, <<"o","n">>, <<"t">>, <<"t","r","u","e">>, <<"y">>,
     <<"y","e","s">>}

BoolFalseTexts ==
    {<<"0">>, <<"o","f","f">>, <<"f">>, <<"f","a","l","s","e">>, <<"n">>,
     <<"n","o">>}

\* The lax bool validator on a JSON value: None when it raises.
ValidateBool(v) ==
    IF v.j = "bool" THEN Some(v.b)
    ELSE IF v.j = "int" /\ v.n \in {0, 1} THEN Some(v.n = 1)
    ELSE IF v.j = "float" /\ v.x \in {Float(0), Float(1)} THEN Some(v.x = Float(1))
    ELSE IF v.j = "str" /\ Lower(v.s) \in BoolTrueTexts THEN Some(TRUE)
    ELSE IF v.j = "str" /\ Lower(v.s) \in BoolFalseTexts THEN Some(FALSE)
    ELSE None

\* Validation of one field of SearchFilters: None when pydantic raises a
\* ValidationError, otherwise Some(the value the field takes). A JSON null
\* is accepted by every Optional field; a text field takes only a JSON
\* string; an int field goes through the lax int validator, a float field
\* through the lax float validator and a flag field through the lax bool
\* validator; limit is a plain int.
Validate(k, v) ==
    IF k = "limit" THEN ValidateInt(v)
    ELSE IF v.j = "null" THEN Some(None)
    ELSE IF k \in TextFields
    THEN IF v.j = "str" THEN Some(Some(v.s)) ELSE None
    ELSE IF k \in IntFields
    THEN IF ValidateInt(v) = None THEN None ELSE Some(ValidateInt(v))
    ELSE IF k \in FloatFields
    THEN IF ValidateFloat(v) = None THEN None ELSE Some(ValidateFloat(v))
    ELSE IF ValidateBool(v) = None THEN None ELSE Some(ValidateBool(v))

\* The keys of a JSON object that SearchFilters declares; the others are
\* ignored by the model class.
Declared(obj) == DOMAIN obj \cap DOMAIN DefaultFilters

\* Whether json.loads(filters_json) or SearchFilters(**filters_dict) raises.
Raises(payload) ==
    \/ payload.j = "invalid"
    \/ payload.j # "object"
    \/ \E k \in Declared(payload.fields) : Validate(k, payload.fields[k]) = None

\* SearchFilters(**filters_dict) for a payload that does not raise.
ParseFilters(payload) ==
    SearchFilters([k \in Declared(payload.fields) |->
                      Val(Validate(k, payload.fields[k]))])

-----------------------------------------------------------------------------
(* app/tools/search_inventory.py: _apply_filters, the row mask             *)

\* Python truthiness of an Optional[str]: neither None nor "".
Truthy(o) == o # None /\ Val(o) # <<>>

\* Series.fillna("") on one cell of a text column.
FillNa(o) == IF o = None THEN <<>> ELSE Val(o)

\* A variant that keeps only the rows explicitly flagged undamaged.
DamagedMask_KnownFalseOnly(row, f) ==
    IF f.is_damaged = None \/ f.is_damaged = Some(FALSE)
    THEN row.is_damaged = Some(FALSE)
    ELSE TRUE

\* Exclude damaged by default.
DamagedMask(row, f) ==
    IF f.is_damaged = None \/ f.is_damaged = Some(FALSE)
    THEN row.is_damaged # Some(TRUE)
    ELSE TRUE

\* A variant without the price > 0 requirement.
PositivePriceMask_Off(row, f) == TRUE

\* With a price bound, internet_price > 0 (NaN > 0 is False).
PositivePriceMask(row, f) ==
    IF f.min_price # None \/ f.max_price # None
    THEN row.internet_price # None /\ Val(row.internet_price) > 0
    ELSE TRUE

BrandMask(row, f) ==
    IF Truthy(f.brand)
    THEN Upper(FillNa(row.brand)) = Upper(Val(f.brand))
    ELSE TRUE

\* Series.str.contains(pat, na=False): regex=True is the default, so the
\* upper-cased filter text is compiled as a regular expression.
ModelMask(row, f) ==
    IF Truthy(f.model)
    THEN ReSearch(Upper(Val(f.model)), Upper(FillNa(row.model)))
    ELSE TRUE

ConfigurationMask(row, f) ==
    IF Truthy(f.configuration)
    THEN Upper(FillNa(row.configuration)) = Upper(Val(f.configuration))
    ELSE TRUE

EuroMask(row, f) ==
    IF f.euro # None THEN row.euro = f.euro ELSE TRUE

\* A variant that compares the filter text without folding its case.
GearboxMask_CaseSensitive(row, f) ==
    IF Truthy(f.gearbox)
    THEN Lower(FillNa(row.gearbox)) = Val(f.gearbox)
    ELSE TRUE

GearboxMask(row, f) ==
    IF Truthy(f.gearbox)
    THEN Lower(FillNa(row.gearbox)) = Lower(Val(f.gearbox))
    ELSE TRUE

FuelMask(row, f) ==
    IF Truthy(f.fuel)
    THEN Lower(FillNa(row.fuel)) = Lower(Val(f.fuel))
    ELSE TRUE

sleeper_keywords ==
    <<T_SLEEPER, T_SPACE, T_HIGHLINE, T_GLOBETROTTER, T_GIGASPACE, T_TOPLINE,
      T_SUPER, T_BIGSPACE, T_STREAMSPACE, T_LONG, T_L_CAB, T_R_SERIES,
      T_S_SERIES>>

\* pattern = "|".join(sleeper_keywords), compiled.
sleeper_pattern == re_compile(JoinBar(sleeper_keywords)).node

CabinMask(row, f) ==
    IF Truthy(f.cabin)
    THEN LET val == Upper(Val(f.cabin))
         IN  IF val = T_SLEEPER
             THEN ReMatch(sleeper_pattern, Upper(FillNa(row.cabin)))
             ELSE ReSearch(val, Upper(FillNa(row.cabin)))
    ELSE TRUE

\* The texts _apply_filters hands to str.contains as regular expressions:
\* the upper-cased model filter, and the upper-cased cabin filter unless it
\* is SLEEPER.
Patterns(f) ==
    (IF Truthy(f.model) THEN {Upper(Val(f.model))} ELSE {})
    \cup (IF Truthy(f.cabin) /\ Upper(Val(f.cabin)) # T_SLEEPER
          THEN {Upper(Val(f.cabin))} ELSE {})

\* str.contains compiles its pattern before it looks at a row: a filter
\* text that is not a regular expression makes _apply_filters raise
\* re.error, whatever the frame holds.
MaskRaises(f) == \E pat \in Patterns(f) : ReError(pat)

\* The filter stays within the constructs of re that ReSearch covers.
MaskCovered(f) == \A pat \in Patterns(f) : ~ReUnsupported(pat)

\* column >= bound / column <= bound; a comparison with NaN is False.
AtLeast(cell, bound) ==
    IF bound # None THEN cell # None /\ Val(cell) >= Val(bound) ELSE TRUE

\* A variant that lets a row of unknown value pass an upper bound.
AtMost_UnknownPasses(cell, bound) ==
    IF bound # None THEN cell = None \/ Val(cell) <= Val(bound) ELSE TRUE

AtMost(cell, bound) ==
    IF bound # None THEN cell # None /\ Val(cell) <= Val(bound) ELSE TRUE

\* The price column is a float column and the price bounds are floats.
PriceRangeMask(row, f) ==
    /\ f.min_price # None =>
           /\ row.internet_price # None
           /\ FloatGe(Float(Val(row.internet_price)), Val(f.min_price))
    /\ f.max_price # None =>
           /\ row.internet_price # None
           /\ FloatLe(Float(Val(row.internet_price)), Val(f.max_price))

PowerRangeMask(row, f) ==
    /\ AtLeast(row.power, f.min_power)
    /\ AtMost(row.power, f.max_power)

MileageRangeMask(row, f) ==
    /\ AtLeast(row.mileage, f.min_mileage)
    /\ AtMost(row.mileage, f.max_mileage)

\* A variant whose is_new = false branch drops the rows of unknown is_new.
IsNewMask_KnownFalseOnly(row, f) ==
    IF f.is_new # None
    THEN IF Val(f.is_new)
         THEN row.is_new = Some(TRUE)
         ELSE row.is_new = Some(FALSE)
    ELSE TRUE

IsNewMask(row, f) ==
    IF f.is_new # None
    THEN IF Val(f.is_new)
         THEN row.is_new = Some(TRUE)
         ELSE row.is_new # Some(TRUE)
    ELSE TRUE

\* A variant with the two commented-out blocks switched on.
RetarderAircoMask_Enabled(row, f) ==
    /\ f.has_retarder = Some(TRUE) => row.retarder = Some(TRUE)
    /\ f.has_airco = Some(TRUE) => row.has_airco = Some(TRUE)

\* has_retarder and has_airco: the two blocks are commented out.
RetarderAircoMask(row, f) == TRUE

MinBedsMask(row, f) == AtLeast(row.bed_amount, f.min_beds)

\* The value of `mask` for one row, after every `mask &= ...`.
\* A variant whose power test assigns the mask (mask = ...) instead of
\* narrowing it (mask &= ...), dropping the predicates evaluated before it.
Mask_PowerOverwrites(row, f) ==
    IF f.min_power # None \/ f.max_power # None
    THEN /\ PowerRangeMask(row, f)
         /\ MileageRangeMask(row, f)
         /\ IsNewMask(row, f)
         /\ RetarderAircoMask(row, f)
         /\ MinBedsMask(row, f)
    ELSE /\ DamagedMask(row, f)
         /\ PositivePriceMask(row, f)
         /\ BrandMask(row, f)
         /\ ModelMask(row, f)
         /\ ConfigurationMask(row, f)
         /\ EuroMask(row, f)
         /\ GearboxMask(row, f)
         /\ FuelMask(row, f)
         /\ CabinMask(row, f)
         /\ PriceRangeMask(row, f)
         /\ PowerRangeMask(row, f)
         /\ MileageRangeMask(row, f)
         /\ IsNewMask(row, f)
         /\ RetarderAircoMask(row, f)
         /\ MinBedsMask(row, f)

\* mask: the conjunction of the predicates, in the order of the code.
Mask(row, f) ==
    /\ DamagedMask(row, f)
    /\ PositivePriceMask(row, f)
    /\ BrandMask(row, f)
    /\ ModelMask(row, f)
    /\ ConfigurationMask(row, f)
    /\ EuroMask(row, f)
    /\ GearboxMask(row, f)
    /\ FuelMask(row, f)
    /\ CabinMask(row, f)
    /\ PriceRangeMask(row, f)
    /\ PowerRangeMask(row, f)
    /\ MileageRangeMask(row, f)
    /\ IsNewMask(row, f)
    /\ RetarderAircoMask(row, f)
    /\ MinBedsMask(row, f)

\* df[mask]: the positions of the rows that pass, in frame order.
Selected(d, f) ==
    SelectSeq([i \in 1..Len(d) |-> i], LAMBDA i : Mask(d[i], f))

-----------------------------------------------------------------------------
(* _apply_filters: sorting and truncation                                  *)

sort_col(f) ==
    IF f.sort_by # None /\ Val(f.sort_by) # ""
    THEN IF Val(f.sort_by) = "price_desc" THEN "internet_price"
         ELSE IF Val(f.sort_by) = "mileage_asc" THEN "mileage"
         ELSE IF Val(f.sort_by) = "power_desc" THEN "power"
         ELSE "internet_price"
    ELSE "internet_price"

\* A variant whose unrecognized sort_by values sort descending.
sort_asc_UnknownIsDescending(f) ==
    IF f.sort_by # None /\ Val(f.sort_by) # ""
    THEN IF Val(f.sort_by) = "price_desc" THEN FALSE
         ELSE IF Val(f.sort_by) = "mileage_asc" THEN TRUE
         ELSE IF Val(f.sort_by) = "power_desc" THEN FALSE
         ELSE Val(f.sort_by) = "price_asc"
    ELSE TRUE

sort_asc(f) ==
    IF f.sort_by # None /\ Val(f.sort_by) # ""
    THEN IF Val(f.sort_by) = "price_desc" THEN FALSE
         ELSE IF Val(f.sort_by) = "mileage_asc" THEN TRUE
         ELSE IF Val(f.sort_by) = "power_desc" THEN FALSE
         ELSE TRUE
    ELSE TRUE

\* A variant without the key lambda: a zero price is an ordinary value.
SortKey_ZeroIsCheapest(row, f) == row[sort_col(f)]

\* The value sort_values orders a row by: the sort column, and for price
\* ascending the key lambda s.replace(0, nan).
SortKey(row, f) ==
    LET cell == row[sort_col(f)]
    IN  IF sort_col(f) = "internet_price" /\ sort_asc(f) /\ cell = Some(0)
        THEN None
        ELSE cell

\* numpy's quicksort sorts a partition of up to SMALL_QUICKSORT + 1
\* elements by insertion.
SMALL_QUICKSORT == 16

\* INTP_SWAP: two entries of the index array exchanged.
IntpSwap(tosort, i, j) == [tosort EXCEPT ![i] = tosort[j], ![j] = tosort[i]]

\* One exchange of the median-of-three step: the entries at lo and hi are
\* exchanged when the key at hi is less than the key at lo.
SwapIfLess(v, tosort, lo, hi) ==
    IF v[tosort[hi]] < v[tosort[lo]] THEN IntpSwap(tosort, hi, lo) ELSE tosort

\* The three exchanges that leave the median of the first, the middle and
\* the last key at pm.
MedianOfThree(v, tosort, pl, pm, pr) ==
    SwapIfLess(v, SwapIfLess(v, SwapIfLess(v, tosort, pl, pm), pm, pr), pl, pm)

\* do { ++pi; } while (less(v[*pi], vp)): the first entry after pi whose key
\* is not less than the pivot.
ScanUp(v, tosort, pi, vp) ==
    CHOOSE i \in (pi + 1)..Len(tosort) :
        /\ ~(v[tosort[i]] < vp)
        /\ \A k \in (pi + 1)..(i - 1) : v[tosort[k]] < vp

\* do { --pj; } while (less(vp, v[*pj])): the last entry before pj whose key
\* is not greater than the pivot.
ScanDown(v, tosort, pj, vp) ==
    CHOOSE j \in 1..(pj - 1) :
        /\ ~(vp < v[tosort[j]])
        /\ \A k \in (j + 1)..(pj - 1) : vp < v[tosort[k]]

\* The partition loop: scan from both ends, exchange, until the scans
\* cross.
RECURSIVE PartitionScan(_, _, _, _, _)
PartitionExchange(v, tosort, vp, pi, pj) ==
    IF pi >= pj THEN [tosort |-> tosort, pi |-> pi]
    ELSE PartitionScan(v, IntpSwap(tosort, pi, pj), pi, pj, vp)

PartitionScan(v, tosort, pi, pj, vp) ==
    PartitionExchange(v, tosort, vp, ScanUp(v, tosort, pi, vp),
                      ScanDown(v, tosort, pj, vp))

\* The pivot goes to its place pi.
PartitionEnd(scanned, pr) ==
    [tosort |-> IntpSwap(scanned.tosort, scanned.pi, pr - 1), pi |-> scanned.pi]

\* The pivot, the median at pm, is parked at pr - 1 and the entries between
\* are partitioned around its key.
PartitionAround(v, tosort, pl, pm, pr) ==
    PartitionEnd(PartitionScan(v, IntpSwap(tosort, pm, pr - 1), pl, pr - 1,
                               v[tosort[pm]]),
                 pr)

\* One quicksort partition of tosort[pl..pr].
Partition(v, tosort, pl, pr) ==
    PartitionAround(v, MedianOfThree(v, tosort, pl, pl + ((pr - pl) \div 2), pr),
                    pl, pl + ((pr - pl) \div 2), pr)

\* The place the entry at pi takes among the sorted tosort[pl..pi-1]: it
\* passes every entry whose key is greater than its own.
InsertAt(v, tosort, pl, pi) ==
    CHOOSE p \in pl..pi :
        /\ p = pl \/ ~(v[tosort[pi]] < v[tosort[p - 1]])
        /\ \A k \in p..(pi - 1) : v[tosort[pi]] < v[tosort[k]]

\* The entry at pi moved to p, the entries between shifted up by one.
MoveTo(tosort, p, pi) ==
    [k \in 1..Len(tosort) |->
        IF k < p \/ k > pi THEN tosort[k]
        ELSE IF k = p THEN tosort[pi]
        ELSE tosort[k - 1]]

\* The insertion sort of tosort[pl..pr], from entry pi on.
RECURSIVE InsertionSort(_, _, _, _, _)
InsertionSort(v, tosort, pl, pi, pr) ==
    IF pi > pr THEN tosort
    ELSE InsertionSort(v, MoveTo(tosort, InsertAt(v, tosort, pl, pi), pi),
                       pl, pi + 1, pr)

\* aquicksort of numpy on tosort[pl..pr]: partitions longer than
\* SMALL_QUICKSORT + 1 are split around the median of three, the others
\* sorted by insertion. The switch to heapsort after 2 * floor(log2(n))
\* nested partitions is not reached by an array of fewer than 35 keys.
RECURSIVE aquicksort(_, _, _, _)
SortParts(v, part, pl, pr) ==
    aquicksort(v, aquicksort(v, part.tosort, pl, part.pi - 1), part.pi + 1, pr)

aquicksort(v, tosort, pl, pr) ==
    IF pr - pl > SMALL_QUICKSORT
    THEN SortParts(v, Partition(v, tosort, pl, pr), pl, pr)
    ELSE InsertionSort(v, tosort, pl, pl + 1, pr)

\* idx[order]: the entries of idx at the positions order names.
Take(idx, order) == [k \in 1..Len(order) |-> idx[order[k]]]

\* The builds of numpy: the one whose argsort of these keys is the scalar
\* aquicksort, and the ones that dispatch it to a vectorised sort first
\* (x86-simd-sort: numpy >= 1.25 on AVX-512, numpy >= 2.0 on AVX2). The
\* order a vectorised sort leaves equal keys in is fixed by the build and
\* the CPU and is not specified: `rank` stands for it, the place each
\* position of the array takes among the positions of equal key.
ScalarBuild == [simd |-> FALSE, rank |-> <<>>]

SimdBuild(rank) == [simd |-> TRUE, rank |-> rank]

\* The place of position i among equal keys: rank[i], and for a position
\* beyond the rank the position itself.
TieRank(rank, i) == IF i <= Len(rank) THEN rank[i] ELSE i

\* The positions 1..n in the order of their places among equal keys.
RankOrder(n, rank) ==
    [k \in 1..n |->
        CHOOSE i \in 1..n :
            Cardinality({j \in 1..n : TieRank(rank, j) < TieRank(rank, i)}) = k - 1]

\* The positions `first` sorted by key, positions of equal key left in the
\* order they have in `first`.
SortedFrom(v, first) ==
    Take(first, InsertionSort([k \in 1..Len(first) |-> v[first[k]]],
                              [k \in 1..Len(first) |-> k], 1, 2, Len(first)))

\* The argsort of a vectorised build: ascending by key, equal keys in the
\* order of their places.
simd_argsort(v, rank) == SortedFrom(v, RankOrder(Len(v), rank))

\* ndarray.argsort(kind="quicksort"): the positions of the keys v in
\* ascending order of key, by the sort the build dispatches to.
argsort(v, build) ==
    IF build.simd THEN simd_argsort(v, build.rank)
    ELSE aquicksort(v, [i \in 1..Len(v) |-> i], 1, Len(v))

Reverse(s) == [k \in 1..Len(s) |-> s[Len(s) + 1 - k]]

\* The keys at the positions idx.
KeysAt(items, idx) == [k \in 1..Len(idx) |-> Val(items[idx[k]])]

\* A variant of nargsort whose NaN keys follow the direction: first when
\* descending.
nargsort_NansFollowDirection(items, ascending, build) ==
    LET idx  == [i \in 1..Len(items) |-> i]
        nans == SelectSeq(idx, LAMBDA i : items[i] = None)
        non  == SelectSeq(idx, LAMBDA i : items[i] # None)
    IN  IF ascending THEN Take(non, argsort(KeysAt(items, non), build)) \o nans
        ELSE nans \o Reverse(Take(Reverse(non), argsort(KeysAt(items, Reverse(non)), build)))

\* pandas nargsort(items, kind="quicksort", ascending, na_position="last"):
\* the positions of the known keys sorted by argsort - for a descending
\* sort the keys are reversed, sorted ascending and reversed again - then
\* the positions of the NaN keys in their order.
nargsort(items, ascending, build) ==
    LET idx  == [i \in 1..Len(items) |-> i]
        nans == SelectSeq(idx, LAMBDA i : items[i] = None)
        non  == SelectSeq(idx, LAMBDA i : items[i] # None)
    IN  IF ascending THEN Take(non, argsort(KeysAt(items, non), build)) \o nans
        ELSE Reverse(Take(Reverse(non), argsort(KeysAt(items, Reverse(non)), build)))
                 \o nans

\* A variant whose NaN keys follow the direction: first when descending.
sort_values_NansFollowDirection(sel, d, f, build) ==
    Take(sel, nargsort_NansFollowDirection(
                  [k \in 1..Len(sel) |-> SortKey(d[sel[k]], f)], sort_asc(f), build))

\* DataFrame.sort_values(by, ascending, na_position="last"), kind left at
\* its default "quicksort": the rows in the order nargsort gives their sort
\* keys.
sort_values(sel, d, f, build) ==
    Take(sel, nargsort([k \in 1..Len(sel) |-> SortKey(d[sel[k]], f)], sort_asc(f), build))

\* DataFrame.head(n): the first n rows; for n < 0 all but the last |n|.
DfHead(s, n) ==
    IF n >= 0 THEN SubSeq(s, 1, Min(n, Len(s)))
    ELSE SubSeq(s, 1, Max(0, Len(s) + n))

\* A variant that truncates the selection before sorting it.
_apply_filters_TruncateFirst(d, f, build) ==
    sort_values(DfHead(Selected(d, f), f.limit), d, f, build)

\* _apply_filters: the positions of the returned rows, in returned order.
_apply_filters(d, f, build) ==
    DfHead(sort_values(Selected(d, f), d, f, build), f.limit)

-----------------------------------------------------------------------------
(* Operations                                                              *)

\* [_row_to_tractor_head(row) for _, row in results_df.iterrows()]
Vehicles(d, rows) == [k \in 1..Len(rows) |-> _row_to_tractor_head(d[rows[k]])]

\* load_inventory(): read the file, normalise it, publish it in _df.
LoadInventory ==
    /\ df' = Some(load_inventory(csv_file))
    /\ op' = "load_inventory"
    /\ request' = None
    /\ filters' = None
    /\ results_df' = <<>>
    /\ response' = [error |-> FALSE, message |-> "", count |-> None,
                    vehicles |-> <<>>, not_found |-> <<>>]
    /\ UNCHANGED <<csv_file, numpy_build, calls, reads, node, messages, cards>>

\* What is left of a call that ended in an exception: no result, and the
\* name of the exception under `raised`.
Raised(exception) ==
    [error |-> FALSE, message |-> "", count |-> None, vehicles |-> <<>>,
     not_found |-> <<>>, raised |-> exception]

\* A variant that sorts the shared frame itself instead of a copy of the
\* selection.
SearchInventoryDirect_SortsStore(f) ==
    LET d     == get_dataframe(df, csv_file)
        rows  == _apply_filters(d, f, numpy_build)
        order == sort_values([i \in 1..Len(d) |-> i], d, f, numpy_build)
    IN  /\ MaskCovered(f)
        /\ df' = Some([k \in 1..Len(d) |-> d[order[k]]])
        /\ op' = "search_inventory_direct"
        /\ request' = f
        /\ filters' = Some(f)
        /\ results_df' = IF MaskRaises(f) THEN <<>> ELSE rows
        /\ response' = IF MaskRaises(f) THEN Raised("re.error")
                       ELSE [error |-> FALSE, message |-> "", count |-> None,
                             vehicles |-> Vehicles(d, rows), not_found |-> <<>>]
        /\ UNCHANGED <<csv_file, numpy_build, calls, reads, node, messages, cards>>

\* search_inventory_direct(filters): get_dataframe(), then _apply_filters,
\* whose re.error leaves the function.
SearchInventoryDirect(f) ==
    LET d    == get_dataframe(df, csv_file)
        rows == _apply_filters(d, f, numpy_build)
    IN  /\ MaskCovered(f)
        /\ df' = Some(d)
        /\ op' = "search_inventory_direct"
        /\ request' = f
        /\ filters' = Some(f)
        /\ results_df' = IF MaskRaises(f) THEN <<>> ELSE rows
        /\ response' = IF MaskRaises(f) THEN Raised("re.error")
                       ELSE [error |-> FALSE, message |-> "", count |-> None,
                             vehicles |-> Vehicles(d, rows), not_found |-> <<>>]
        /\ UNCHANGED <<csv_file, numpy_build, calls, reads, node, messages, cards>>

\* A variant that answers a payload it cannot parse with a search by the
\* default filters.
SearchInventory_FallsBackToDefaults(payload) ==
    LET f    == IF Raises(payload) THEN DefaultFilters ELSE ParseFilters(payload)
        d    == get_dataframe(df, csv_file)
        rows == _apply_filters(d, f, numpy_build)
        vehicles == Vehicles(d, rows)
    IN  /\ MaskCovered(f)
        /\ df' = Some(d)
        /\ op' = "search_inventory"
        /\ request' = payload
        /\ filters' = Some(f)
        /\ results_df' = IF MaskRaises(f) THEN <<>> ELSE rows
        /\ response' = IF MaskRaises(f) THEN Raised("re.error")
                       ELSE [error |-> FALSE, message |-> "",
                             count |-> Some(Len(vehicles)),
                             vehicles |-> vehicles, not_found |-> <<>>]
        /\ UNCHANGED <<csv_file, numpy_build, calls, reads, node, messages, cards>>

\* search_inventory(filters_json), the tool: the try block covers json.loads
\* and SearchFilters(**filters_dict) only, so a re.error of _apply_filters
\* leaves the tool.
SearchInventory(payload) ==
    IF Raises(payload)
    THEN /\ op' = "search_inventory"
         /\ request' = payload
         /\ filters' = None
         /\ results_df' = <<>>
         /\ response' = [error |-> TRUE, message |-> "Invalid filters: ",
                         count |-> Some(0), vehicles |-> <<>>,
                         not_found |-> <<>>]
         /\ UNCHANGED <<csv_file, df, numpy_build, calls, reads, node, messages, cards>>
    ELSE LET f    == ParseFilters(payload)
             d    == get_dataframe(df, csv_file)
             rows == _apply_filters(d, f, numpy_build)
             vehicles == Vehicles(d, rows)
         IN  /\ MaskCovered(f)
             /\ df' = Some(d)
             /\ op' = "search_inventory"
             /\ request' = payload
             /\ filters' = Some(f)
             /\ results_df' = IF MaskRaises(f) THEN <<>> ELSE rows
             /\ response' = IF MaskRaises(f) THEN Raised("re.error")
                            ELSE [error |-> FALSE, message |-> "",
                                  count |-> Some(Len(vehicles)),
                                  vehicles |-> vehicles, not_found |-> <<>>]
             /\ UNCHANGED <<csv_file, numpy_build, calls, reads, node, messages, cards>>

\* data_loader.get_vehicle_by_id(vehicle_id), called directly.
GetVehicleById(vehicle_id) ==
    LET d == get_dataframe(df, csv_file)
    IN  /\ df' = Some(d)
        /\ op' = "get_vehicle_by_id"
        /\ request' = vehicle_id
        /\ filters' = None
        /\ results_df' = <<>>
        /\ response' = [error |-> FALSE, message |-> "", count |-> None,
                        vehicles |-> get_vehicle_by_id(d, vehicle_id),
                        not_found |-> <<>>]
        /\ UNCHANGED <<csv_file, numpy_build, calls, reads, node, messages, cards>>

\* data_loader.get_all_vehicles(), called directly.
GetAllVehicles ==
    LET d == get_dataframe(df, csv_file)
    IN  /\ df' = Some(d)
        /\ op' = "get_all_vehicles"
        /\ request' = None
        /\ filters' = None
        /\ results_df' = <<>>
        /\ response' = [error |-> FALSE, message |-> "", count |-> None,
                        vehicles |-> get_all_vehicles(d), not_found |-> <<>>]
        /\ UNCHANGED <<csv_file, numpy_build, calls, reads, node, messages, cards>>

\* data_loader.get_unique_values(column), called directly; the list it
\* returns is the `values` of the response.
GetUniqueValues(column) ==
    LET d == get_dataframe(df, csv_file)
    IN  /\ df' = Some(d)
        /\ op' = "get_unique_values"
        /\ request' = column
        /\ filters' = None
        /\ results_df' = <<>>
        /\ response' = [error |-> FALSE, message |-> "", count |-> None,
                        vehicles |-> <<>>, not_found |-> <<>>,
                        values |-> get_unique_values(d, column)]
        /\ UNCHANGED <<csv_file, numpy_build, calls, reads, node, messages, cards>>

\* The positions of the rows that hold a known value of column no earlier
\* row holds: the order in which value_counts() meets the values.
FirstSeen(d, column) ==
    SelectSeq([i \in 1..Len(d) |-> i],
              LAMBDA i : /\ d[i][column] # None
                         /\ \A j \in 1..(i - 1) : d[j][column] # d[i][column])

\* How many rows of the frame hold value v in column.
CountOf(d, column, v) == Cardinality({i \in 1..Len(d) : d[i][column] = Some(v)})

\* value_counts(): the values with their counts, the larger count first,
\* ordered by sort_values(ascending=False) on the counts.
ValueCounts(d, column, firsts, build) ==
    Take([k \in 1..Len(firsts) |->
              [value |-> Val(d[firsts[k]][column]),
               count |-> CountOf(d, column, Val(d[firsts[k]][column]))]],
         nargsort([k \in 1..Len(firsts) |->
                      Some(CountOf(d, column, Val(d[firsts[k]][column])))],
                  FALSE, build))

\* _count_by(col) of get_meta: the known values of a column with their
\* counts.
_count_by(d, column, build) == ValueCounts(d, column, FirstSeen(d, column), build)

\* The smallest and the largest known value of a column, 0 when none is
\* known; float(...) and int(...) of it on the integer-valued cells.
ColumnMin(d, column) ==
    LET known == Range(DropNa(d, column))
    IN  IF known = {} THEN 0 ELSE CHOOSE x \in known : \A y \in known : x <= y

ColumnMax(d, column) ==
    LET known == Range(DropNa(d, column))
    IN  IF known = {} THEN 0 ELSE CHOOSE x \in known : \A y \in known : x >= y

\* What GET /meta.json answers for the frame d: the rows that are not
\* marked damaged, counted by brand, configuration, gearbox and fuel, their
\* positive euro norms, how many are new and how many are not, and the
\* range of their known prices and powers.
get_meta(d, build) ==
    LET df_clean == SelectSeq(d, LAMBDA row : row.is_damaged # Some(TRUE))
        new      == {i \in 1..Len(df_clean) : df_clean[i].is_new = Some(TRUE)}
    IN  [total          |-> Len(df_clean),
         brands         |-> _count_by(df_clean, "brand", build),
         configurations |-> _count_by(df_clean, "configuration", build),
         euro_norms     |-> Sorted({e \in Range(DropNa(df_clean, "euro")) : e > 0},
                                   "euro"),
         gearboxes      |-> _count_by(df_clean, "gearbox", build),
         fuels          |-> _count_by(df_clean, "fuel", build),
         conditions     |-> [new  |-> Cardinality(new),
                             used |-> Len(df_clean) - Cardinality(new)],
         price_range    |-> [min |-> ColumnMin(df_clean, "internet_price"),
                             max |-> ColumnMax(df_clean, "internet_price")],
         power_range    |-> [min |-> ColumnMin(df_clean, "power"),
                             max |-> ColumnMax(df_clean, "power")]]

\* GET /meta.json; the dictionary it returns is the `meta` of the response.
GetMeta ==
    LET d == get_dataframe(df, csv_file)
    IN  /\ df' = Some(d)
        /\ op' = "get_meta"
        /\ request' = None
        /\ filters' = None
        /\ results_df' = <<>>
        /\ response' = [error |-> FALSE, message |-> "", count |-> None,
                        vehicles |-> <<>>, not_found |-> <<>>,
                        meta |-> get_meta(d, numpy_build)]
        /\ UNCHANGED <<csv_file, numpy_build, calls, reads, node, messages, cards>>

\* get_vehicle_details(vehicle_id), the tool.
GetVehicleDetails(vehicle_id) ==
    LET d == get_dataframe(df, csv_file)
        vehicle == get_vehicle_by_id(d, vehicle_id)
    IN  /\ df' = Some(d)
        /\ op' = "get_vehicle_details"
        /\ request' = vehicle_id
        /\ filters' = None
        /\ results_df' = <<>>
        /\ response' =
               IF vehicle = None
               THEN [error |-> TRUE, message |-> "Vehicle with ID not found.",
                     count |-> None, vehicles |-> <<>>,
                     not_found |-> <<vehicle_id>>]
               ELSE [error |-> FALSE, message |-> "", count |-> None,
                     vehicles |-> vehicle, not_found |-> <<>>]
        /\ UNCHANGED <<csv_file, numpy_build, calls, reads, node, messages, cards>>

MinCompare == 2
MaxCompare == 5

\* A variant that stops at the first id it does not find.
NotFound_FirstOnly(d, vehicle_ids) ==
    LET missing == SelectSeq(vehicle_ids,
                             LAMBDA vid : get_vehicle_by_id(d, vid) = None)
    IN  IF missing = <<>> THEN <<>> ELSE <<missing[1]>>

\* The loop of compare_vehicles: the ids get_vehicle_by_id does not find,
\* and the vehicles it finds, each in the order of the input list.
NotFound(d, vehicle_ids) ==
    SelectSeq(vehicle_ids, LAMBDA vid : get_vehicle_by_id(d, vid) = None)

\* A variant that collects the vehicles in the order of the store.
Found_StoreOrder(d, vehicle_ids) ==
    LET hits == SelectSeq([i \in 1..Len(d) |-> i],
                          LAMBDA i : d[i].vehicle_id \in Range(vehicle_ids))
    IN  [k \in 1..Len(hits) |-> _row_to_tractor_head(d[hits[k]])]

Found(d, vehicle_ids) ==
    LET hits == SelectSeq(vehicle_ids, LAMBDA vid : get_vehicle_by_id(d, vid) # None)
    IN  [k \in 1..Len(hits) |-> Val(get_vehicle_by_id(d, hits[k]))]

\* A variant that cuts a list of more than five ids to its first five.
CompareVehicles_Truncates(vehicle_ids) ==
    /\ op' = "compare_vehicles"
    /\ request' = vehicle_ids
    /\ filters' = None
    /\ results_df' = <<>>
    /\ UNCHANGED <<csv_file, numpy_build, calls, reads, node, messages, cards>>
    /\ IF Len(vehicle_ids) < MinCompare
       THEN /\ response' = [error |-> TRUE,
                            message |-> "Please provide at least 2 vehicle IDs to compare.",
                            count |-> None, vehicles |-> <<>>, not_found |-> <<>>]
            /\ UNCHANGED df
       ELSE LET d == get_dataframe(df, csv_file)
                ids == SubSeq(vehicle_ids, 1, Min(Len(vehicle_ids), MaxCompare))
                not_found == NotFound(d, ids)
                vehicles == Found(d, ids)
            IN  /\ df' = Some(d)
                /\ response' =
                       IF not_found # <<>>
                       THEN [error |-> TRUE, message |-> "Vehicles not found: ",
                             count |-> None, vehicles |-> <<>>,
                             not_found |-> not_found]
                       ELSE [error |-> FALSE, message |-> "",
                             count |-> Some(Len(vehicles)),
                             vehicles |-> vehicles, not_found |-> <<>>]

\* compare_vehicles(vehicle_ids), the tool. The two length checks return
\* before get_vehicle_by_id, hence get_dataframe, is ever called.
CompareVehicles(vehicle_ids) ==
    /\ op' = "compare_vehicles"
    /\ request' = vehicle_ids
    /\ filters' = None
    /\ results_df' = <<>>
    /\ UNCHANGED <<csv_file, numpy_build, calls, reads, node, messages, cards>>
    /\ IF Len(vehicle_ids) < MinCompare
       THEN /\ response' = [error |-> TRUE,
                            message |-> "Please provide at least 2 vehicle IDs to compare.",
                            count |-> None, vehicles |-> <<>>, not_found |-> <<>>]
            /\ UNCHANGED df
       ELSE IF Len(vehicle_ids) > MaxCompare
       THEN /\ response' = [error |-> TRUE,
                            message |-> "Please provide at most 5 vehicle IDs to compare.",
                            count |-> None, vehicles |-> <<>>, not_found |-> <<>>]
            /\ UNCHANGED df
       ELSE LET d == get_dataframe(df, csv_file)
                not_found == NotFound(d, vehicle_ids)
                vehicles == Found(d, vehicle_ids)
            IN  /\ df' = Some(d)
                /\ response' =
                       IF not_found # <<>>
                       THEN [error |-> TRUE, message |-> "Vehicles not found: ",
                             count |-> None, vehicles |-> <<>>,
                             not_found |-> not_found]
                       ELSE [error |-> FALSE, message |-> "",
                             count |-> Some(Len(vehicles)),
                             vehicles |-> vehicles, not_found |-> <<>>]

-----------------------------------------------------------------------------
(* load_inventory and get_dataframe statement by statement, one call per   *)
(* thread: the startup call of lifespan and the get_dataframe calls of     *)
(* queries running on worker threads                                       *)

Startup == "startup"
Queries == {"q1", "q2"}
Threads == {Startup} \cup Queries

QueryKinds == {"search_inventory", "get_vehicle_details", "compare_vehicles"}

\* A thread outside any call: no local frame, nothing returned.
IdleCall == [pc |-> "idle", query |-> "none", local |-> <<>>, frame |-> None]

\* The statements of load_inventory on its local frame, column by column.
MapGearbox(rows) ==
    [i \in 1..Len(rows) |-> [rows[i] EXCEPT !.gearbox = NormGearbox(@)]]

MapLower(rows, col) ==
    [i \in 1..Len(rows) |-> [rows[i] EXCEPT ![col] = NormLower(@)]]

MapUpper(rows, col) ==
    [i \in 1..Len(rows) |-> [rows[i] EXCEPT ![col] = NormUpper(@)]]

MapBoolCols(rows) ==
    [i \in 1..Len(rows) |->
        [rows[i] EXCEPT !.retarder       = _parse_bool(@),
                        !.is_new         = _parse_bool(@),
                        !.has_airco      = _parse_bool(@),
                        !.has_hydraulics = _parse_bool(@),
                        !.is_damaged     = _parse_bool(@)]]

\* The statement of thread t at program counter `at`: the local frame
\* becomes `rows`, control moves to `to`.
Statement(t, at, rows, to) ==
    /\ calls[t].pc = at
    /\ calls' = [calls EXCEPT ![t].pc = to, ![t].local = rows]

\* lifespan: load_inventory() at startup.
LifespanLoad ==
    /\ calls[Startup].pc = "idle"
    /\ calls' = [calls EXCEPT ![Startup].pc = "read_csv"]
    /\ UNCHANGED <<csv_file, df, numpy_build, op, request, filters, results_df,
                   response, reads, node, messages, cards>>

\* get_dataframe of a query, `if _df is None`: enter load_inventory when
\* the store is absent, go to the return statement otherwise.
GetDataframeCheck(t, kind) ==
    /\ t \in Queries
    /\ calls[t].pc = "idle"
    /\ calls' = [calls EXCEPT
                    ![t] = [pc |-> IF df = None THEN "read_csv" ELSE "return",
                            query |-> kind, local |-> <<>>, frame |-> None]]
    /\ UNCHANGED <<csv_file, df, numpy_build, op, request, filters, results_df,
                   response, reads, node, messages, cards>>

\* A variant of the read that assigns the global at once
\* (_df = pd.read_csv(...)) and normalises afterwards.
LoadReadCsv_PublishesRaw(t) ==
    /\ Statement(t, "read_csv", csv_file, "gearbox")
    /\ reads' = reads + 1
    /\ df' = Some(csv_file)
    /\ UNCHANGED <<csv_file, numpy_build, op, request, filters, results_df,
                   response, node, messages, cards>>

\* df = pd.read_csv(path, ...)
LoadReadCsv(t) ==
    /\ Statement(t, "read_csv", csv_file, "gearbox")
    /\ reads' = reads + 1
    /\ UNCHANGED <<csv_file, df, numpy_build, op, request, filters, results_df,
                   response, node, messages, cards>>

\* df["gearbox"] = df["gearbox"].map(...)
LoadGearbox(t) ==
    /\ Statement(t, "gearbox", MapGearbox(calls[t].local), "fuel")
    /\ UNCHANGED <<csv_file, df, numpy_build, op, request, filters, results_df,
                   response, reads, node, messages, cards>>

\* df["fuel"] = df["fuel"].map(...)
LoadFuel(t) ==
    /\ Statement(t, "fuel", MapLower(calls[t].local, "fuel"), "brand")
    /\ UNCHANGED <<csv_file, df, numpy_build, op, request, filters, results_df,
                   response, reads, node, messages, cards>>

\* df["brand"] = df["brand"].map(...)
LoadBrand(t) ==
    /\ Statement(t, "brand", MapUpper(calls[t].local, "brand"), "cabin")
    /\ UNCHANGED <<csv_file, df, numpy_build, op, request, filters, results_df,
                   response, reads, node, messages, cards>>

\* df["cabin"] = df["cabin"].map(...)
LoadCabin(t) ==
    /\ Statement(t, "cabin", MapUpper(calls[t].local, "cabin"),
                 "configuration")
    /\ UNCHANGED <<csv_file, df, numpy_build, op, request, filters, results_df,
                   response, reads, node, messages, cards>>

\* df["configuration"] = df["configuration"].map(...)
LoadConfiguration(t) ==
    /\ Statement(t, "configuration",
                 MapUpper(calls[t].local, "configuration"), "model")
    /\ UNCHANGED <<csv_file, df, numpy_build, op, request, filters, results_df,
                   response, reads, node, messages, cards>>

\* df["model"] = df["model"].map(...)
LoadModel(t) ==
    /\ Statement(t, "model", MapUpper(calls[t].local, "model"), "bools")
    /\ UNCHANGED <<csv_file, df, numpy_build, op, request, filters, results_df,
                   response, reads, node, messages, cards>>

\* for col in BOOL_COLS: df[col] = df[col].map(_parse_bool)
LoadBools(t) ==
    /\ Statement(t, "bools", MapBoolCols(calls[t].local), "publish")
    /\ UNCHANGED <<csv_file, df, numpy_build, op, request, filters, results_df,
                   response, reads, node, messages, cards>>

\* _df = df; return df. The startup call is over; a query is back in
\* get_dataframe, before its return statement.
LoadPublish(t) ==
    /\ Statement(t, "publish", <<>>, IF t = Startup THEN "done" ELSE "return")
    /\ df' = Some(calls[t].local)
    /\ UNCHANGED <<csv_file, numpy_build, op, request, filters, results_df,
                   response, reads, node, messages, cards>>

\* get_dataframe, `return _df`: the query obtains the frame the global
\* refers to at this moment.
GetDataframeReturn(t) ==
    /\ calls[t].pc = "return"
    /\ calls' = [calls EXCEPT ![t].pc = "done", ![t].frame = df]
    /\ UNCHANGED <<csv_file, df, numpy_build, op, request, filters, results_df,
                   response, reads, node, messages, cards>>

\* The query is answered; its thread takes the next query.
QueryDone(t) ==
    /\ t \in Queries
    /\ calls[t].pc = "done"
    /\ calls' = [calls EXCEPT ![t] = IdleCall]
    /\ UNCHANGED <<csv_file, df, numpy_build, op, request, filters, results_df,
                   response, reads, node, messages, cards>>

-----------------------------------------------------------------------------
(* app/agents/graph.py and app/api/main.py: the agent graph and the chat   *)
(* endpoint                                                                *)

\* TOOLS, by name.
TOOLS == {"search_inventory", "compare_vehicles", "get_vehicle_details"}

END == "__end__"

\* What json.loads yields for the text each tool returns: the keys the chat
\* endpoint reads, and the keys that tell the outputs apart.
search_inventory_json(payload, d, build) ==
    IF Raises(payload)
    THEN [error |-> TRUE, count |-> 0, vehicles |-> <<>>]
    ELSE LET vehicles == Vehicles(d, _apply_filters(d, ParseFilters(payload), build))
         IN  [count |-> Len(vehicles), vehicles |-> vehicles]

get_vehicle_details_json(vehicle_id, d) ==
    IF get_vehicle_by_id(d, vehicle_id) = None
    THEN [error |-> TRUE]
    ELSE Val(get_vehicle_by_id(d, vehicle_id))

compare_vehicles_json(vehicle_ids, d) ==
    IF Len(vehicle_ids) < MinCompare \/ Len(vehicle_ids) > MaxCompare
    THEN [error |-> TRUE]
    ELSE IF NotFound(d, vehicle_ids) # <<>>
    THEN [error |-> TRUE]
    ELSE [vehicle_count |-> Len(Found(d, vehicle_ids)),
          vehicles |-> Found(d, vehicle_ids)]

\* Messages: the user's, the model's (with its tool calls), a tool's (with
\* its name, whether its content parses as JSON, and the parsed content).
HumanMessage ==
    [type |-> "human", tool_calls |-> <<>>, name |-> "", parses |-> FALSE,
     data |-> <<>>]

AIMessage(tool_calls) ==
    [type |-> "ai", tool_calls |-> tool_calls, name |-> "", parses |-> FALSE,
     data |-> <<>>]

ToolMessage(name, parses, data) ==
    [type |-> "tool", tool_calls |-> <<>>, name |-> name, parses |-> parses,
     data |-> data]

\* A tool call of the model: the tool's name, its arguments by name, and
\* whether the arguments fit the tool's signature.
ToolCall(name, args) == [name |-> name, args |-> args, fits |-> TRUE]
BadToolCall(name) == [name |-> name, args |-> [unusable |-> TRUE], fits |-> FALSE]

\* The tool call ends in an exception of the tool's own code: a search
\* whose model or cabin text is not a regular expression.
ToolRaises(call) ==
    /\ call.name = "search_inventory"
    /\ call.fits
    /\ ~Raises(call.args.filters_json)
    /\ MaskRaises(ParseFilters(call.args.filters_json))

\* ToolNode(TOOLS) on one tool call: the tool's output as a tool message;
\* for a name that is no tool, arguments that do not fit, or a tool whose
\* exception ToolNode handles, an error text under the requested name.
RunTool(call, d, build) ==
    IF call.name \notin TOOLS \/ ~call.fits \/ ToolRaises(call)
    THEN ToolMessage(call.name, FALSE, <<>>)
    ELSE IF call.name = "search_inventory"
    THEN ToolMessage(call.name, TRUE,
                     search_inventory_json(call.args.filters_json, d, build))
    ELSE IF call.name = "get_vehicle_details"
    THEN ToolMessage(call.name, TRUE,
                     get_vehicle_details_json(call.args.vehicle_id, d))
    ELSE ToolMessage(call.name, TRUE,
                     compare_vehicles_json(call.args.vehicle_ids, d))

\* A variant that routes to the tools node when any message of the state
\* carries tool calls.
should_continue_AnyToolCall(msgs) ==
    IF \E i \in 1..Len(msgs) : msgs[i].tool_calls # <<>> THEN "tools" ELSE END

\* should_continue: "tools" when the last message carries tool calls.
should_continue(msgs) ==
    IF msgs[Len(msgs)].tool_calls # <<>> THEN "tools" ELSE END

\* _dict_to_card: the fields of VehicleCard.
_dict_to_card(v) ==
    [vehicle_id     |-> v.vehicle_id,
     brand          |-> v.brand,
     configuration  |-> v.configuration,
     cabin          |-> v.cabin,
     power          |-> v.power,
     euro           |-> v.euro,
     gearbox        |-> v.gearbox,
     fuel           |-> v.fuel,
     mileage        |-> v.mileage,
     internet_price |-> v.internet_price,
     is_new         |-> v.is_new,
     retarder       |-> v.retarder,
     has_airco      |-> v.has_airco,
     bed_amount     |-> v.bed_amount]

\* The cards of one tool message.
CardsOf(msg) ==
    IF ~msg.parses THEN <<>>
    ELSE IF msg.name = "get_vehicle_details"
    THEN IF "vehicle_id" \in DOMAIN msg.data
         THEN <<_dict_to_card(msg.data)>>
         ELSE <<>>
    ELSE LET vehicles == IF "vehicles" \in DOMAIN msg.data
                         THEN msg.data.vehicles ELSE <<>>
             kept == SelectSeq(vehicles, LAMBDA v : v.vehicle_id # 0)
         IN  [k \in 1..Len(kept) |-> _dict_to_card(kept[k])]

\* A variant that takes the first tool message of the conversation.
_extract_vehicle_cards_FirstToolMessage(msgs) ==
    LET tool_msgs == SelectSeq(msgs, LAMBDA m : m.type = "tool" /\ m.name \in TOOLS)
    IN  IF tool_msgs = <<>> THEN <<>> ELSE CardsOf(tool_msgs[1])

\* _extract_vehicle_cards: the cards of the last message of one of TOOLS.
_extract_vehicle_cards(msgs) ==
    LET tool_msgs == SelectSeq(msgs, LAMBDA m : m.type = "tool" /\ m.name \in TOOLS)
    IN  IF tool_msgs = <<>> THEN <<>> ELSE CardsOf(tool_msgs[Len(tool_msgs)])

MaxMessages == 6

\* chat: graph.invoke with the user's message appended to the thread; the
\* run starts at the entry point.
ChatInvoke ==
    /\ node = "idle"
    /\ Len(messages) + 2 <= MaxMessages
    /\ messages' = Append(messages, HumanMessage)
    /\ node' = "chatbot"
    /\ op' = "invoke"
    /\ UNCHANGED <<csv_file, df, numpy_build, request, filters, results_df,
                   response, calls, reads, cards>>

\* chatbot_node when llm_with_tools.invoke raises (the language model's
\* service fails): nothing catches the exception inside the graph, it
\* leaves graph.invoke, chat answers with status 500, and the thread keeps
\* the messages of the last completed step.
ChatbotNodeRaises ==
    /\ node = "chatbot"
    /\ node' = "idle"
    /\ op' = "chat_failed"
    /\ response' = Raised("HTTPException")
    /\ UNCHANGED <<csv_file, df, numpy_build, request, filters, results_df,
                   calls, reads, messages, cards>>

\* chatbot_node, then the conditional edge: the model's answer, with the
\* tool calls it chose, is appended and should_continue picks the next node.
ChatbotNode(tool_calls) ==
    /\ node = "chatbot"
    /\ tool_calls # <<>> => Len(messages) + Len(tool_calls) + 2 <= MaxMessages
    /\ messages' = Append(messages, AIMessage(tool_calls))
    /\ node' = should_continue(Append(messages, AIMessage(tool_calls)))
    /\ UNCHANGED <<csv_file, df, numpy_build, op, request, filters, results_df,
                   response, calls, reads, cards>>

\* The tools node, then the edge back to the chatbot: one tool message per
\* tool call of the last message. ToolNode(TOOLS) is built with the
\* library's default handle_tool_errors, which catches every exception of a
\* tool in some releases and only the errors of a call's arguments in
\* others: when a tool raises, this step (an error message for that call)
\* and ToolsNodeRaises are both possible.
ToolsNode ==
    /\ node = "tools"
    /\ LET tool_calls == messages[Len(messages)].tool_calls
       IN  messages' = messages \o
               [k \in 1..Len(tool_calls) |->
                   RunTool(tool_calls[k], Val(df), numpy_build)]
    /\ node' = "chatbot"
    /\ UNCHANGED <<csv_file, df, numpy_build, op, request, filters, results_df,
                   response, calls, reads, cards>>

\* The tools node when a tool raises and ToolNode does not handle it: the
\* exception leaves graph.invoke, chat answers with status 500, and the
\* thread keeps the messages of the last completed step.
ToolsNodeRaises ==
    /\ node = "tools"
    /\ \E k \in 1..Len(messages[Len(messages)].tool_calls) :
           ToolRaises(messages[Len(messages)].tool_calls[k])
    /\ node' = "idle"
    /\ op' = "chat_failed"
    /\ response' = Raised("HTTPException")
    /\ UNCHANGED <<csv_file, df, numpy_build, request, filters, results_df,
                   calls, reads, messages, cards>>

\* chat, after graph.invoke has returned: the vehicle cards of the response.
ChatRespond ==
    /\ node = END
    /\ cards' = _extract_vehicle_cards(messages)
    /\ node' = "idle"
    /\ op' = "chat"
    /\ UNCHANGED <<csv_file, df, numpy_build, request, filters, results_df,
                   response, calls, reads, messages>>

-----------------------------------------------------------------------------
(* Inputs: the inventory files and the queries the specifications draw from *)

MaxRows == 2
MaxRankRows == 3

TriCell == {NaN, Bool(TRUE), Bool(FALSE)}
TriBool == {None, Some(TRUE), Some(FALSE)}

\* One complete, undamaged, used vehicle; the files vary it column by column.
BaseRow ==
    [vehicle_id |-> 100,
     brand |-> Some(T_DAF), model |-> Some(T_XF105),
     configuration |-> Some(T_4X2), euro |-> Some(6),
     gearbox |-> Some(T_AUTOMAAT), fuel |-> Some(T_Diesel),
     cabin |-> Some(T_SPACE_CAB),
     internet_price |-> Some(2), power |-> Some(2), mileage |-> Some(2),
     bed_amount |-> Some(1),
     is_new |-> Bool(FALSE), is_damaged |-> Bool(FALSE),
     retarder |-> NaN, has_airco |-> NaN, has_hydraulics |-> NaN]

\* The files of 1..n rows whose i-th row is BaseRow with id 100 + i and the
\* columns of one element of `variants` replaced.
Files(variants, n) ==
    UNION {{[i \in 1..len |->
                Merge([BaseRow EXCEPT !.vehicle_id = 100 + i], pick[i])] :
            pick \in [1..len -> variants]} : len \in 1..n}

\* The builds a run is drawn from: the scalar one, and a vectorised one
\* that leaves the first two positions of equal key in the other order.
Builds == {ScalarBuild, SimdBuild(<<2, 1>>)}

InitWith(files, builds) ==
    /\ csv_file \in files
    /\ df = None
    /\ numpy_build \in builds
    /\ op = "start"
    /\ request = None
    /\ filters = None
    /\ results_df = <<>>
    /\ response = [error |-> FALSE, message |-> "", count |-> None,
                   vehicles |-> <<>>, not_found |-> <<>>]
    /\ calls = <<>>
    /\ reads = 0
    /\ node = "idle"
    /\ messages = <<>>
    /\ cards = <<>>

\* Flags: is_damaged, is_new, retarder, has_airco.
FlagRows ==
    {[is_damaged |-> a, is_new |-> Bool(FALSE), retarder |-> NaN, has_airco |-> NaN] :
        a \in TriCell}
    \cup {[is_damaged |-> Bool(FALSE), is_new |-> b, retarder |-> NaN, has_airco |-> NaN] :
        b \in TriCell}
    \cup {[is_damaged |-> Bool(TRUE), is_new |-> Bool(TRUE),
           retarder |-> NaN, has_airco |-> Bool(TRUE)],
          [is_damaged |-> NaN, is_new |-> Text(T_yes),
           retarder |-> Bool(TRUE), has_airco |-> Bool(FALSE)]}

FlagFilters ==
    {SearchFilters([is_damaged |-> a, is_new |-> b,
                    has_retarder |-> c[1], has_airco |-> c[2]]) :
        a \in TriBool, b \in TriBool,
        c \in {<<None, None>>, <<Some(TRUE), None>>, <<Some(FALSE), Some(TRUE)>>}}

InitFlags == InitWith(Files(FlagRows, MaxRows), Builds)

NextFlags ==
    \/ LoadInventory
    \/ \E f \in FlagFilters : SearchInventoryDirect(f)

SpecFlags == InitFlags /\ [][NextFlags]_vars

\* Prices: internet_price against min_price / max_price, integral and
\* fractional, and the reads of the whole store that report it: every
\* vehicle, the distinct values of a column, the sidebar metadata. Next to
\* the rows that differ in price only there are rows of another brand,
\* gearbox and condition, a damaged one and one without brand.
PriceRows ==
    {[internet_price |-> p] : p \in {None, Some(0), Some(1), Some(2), Some(3)}}
    \cup {[brand |-> Some(T_MAN), euro |-> Some(0), power |-> Some(3),
            is_new |-> Bool(TRUE)],
          [brand |-> None, internet_price |-> Some(3), is_damaged |-> Bool(TRUE)],
          [gearbox |-> Some(T_HANDGESCHAKELD), fuel |-> None, power |-> None,
           is_damaged |-> NaN]}

\* The columns asked for their distinct values: a text column, a number
\* column, a flag column, and a column the frame does not have.
PriceColumns == {"brand", "internet_price", "is_damaged", "colour"}

PriceFilters ==
    {SearchFilters([min_price |-> lo, max_price |-> hi]) :
        lo \in {None, Some(Float(0)), Some(Float(2)), Some(Ratio(3, 2))},
        hi \in {None, Some(Float(1)), Some(Float(2)), Some(Ratio(5, 2))}}

InitPrice == InitWith(Files(PriceRows, MaxRows), Builds)

NextPrice ==
    \/ LoadInventory
    \/ \E f \in PriceFilters : SearchInventoryDirect(f)
    \/ GetAllVehicles
    \/ \E column \in PriceColumns : GetUniqueValues(column)
    \/ GetMeta

SpecPrice == InitPrice /\ [][NextPrice]_vars

\* Ranges: power, mileage and bed_amount against their bounds.
RangeRows ==
    {[power |-> p, mileage |-> Some(2), bed_amount |-> Some(1)] :
        p \in {None, Some(1), Some(2), Some(3)}}
    \cup {[power |-> Some(2), mileage |-> m, bed_amount |-> Some(1)] :
        m \in {None, Some(3)}}
    \cup {[power |-> Some(2), mileage |-> Some(2), bed_amount |-> b] :
        b \in {None, Some(2)}}

RangeFilters ==
    {SearchFilters([min_power |-> b[1], max_power |-> b[2],
                    min_mileage |-> b[3], max_mileage |-> b[4],
                    min_beds |-> b[5]]) :
        b \in {<<None, None, None, None, None>>,
               <<Some(2), None, None, None, None>>,
               <<None, Some(2), None, None, None>>,
               <<Some(2), Some(3), None, None, None>>,
               <<Some(3), Some(1), None, None, None>>,
               <<None, None, Some(3), None, None>>,
               <<None, None, None, Some(2), None>>,
               <<None, None, Some(2), Some(2), None>>,
               <<None, None, None, None, Some(1)>>,
               <<None, None, None, None, Some(2)>>,
               <<Some(2), None, None, Some(2), Some(1)>>}}

InitRange == InitWith(Files(RangeRows, MaxRows), Builds)

NextRange ==
    \/ LoadInventory
    \/ \E f \in RangeFilters : SearchInventoryDirect(f)

SpecRange == InitRange /\ [][NextRange]_vars

\* Exact-match columns: brand, configuration, euro, gearbox, fuel.
ExactRows ==
    {[brand |-> Some(T_daf_padded), configuration |-> Some(T_4X2), euro |-> Some(6),
      gearbox |-> Some(T_AUTOMAAT), fuel |-> Some(T_Diesel)],
     [brand |-> None, configuration |-> Some(T_4X2), euro |-> Some(6),
      gearbox |-> Some(T_AUTOMAAT), fuel |-> Some(T_Diesel)],
     [brand |-> Some(T_MAN), configuration |-> None, euro |-> Some(6),
      gearbox |-> Some(T_AUTOMAAT), fuel |-> Some(T_Diesel)],
     [brand |-> Some(T_DAF), configuration |-> Some(T_6X2), euro |-> None,
      gearbox |-> Some(T_AUTOMAAT), fuel |-> Some(T_Diesel)],
     [brand |-> Some(T_DAF), configuration |-> Some(T_4X2), euro |-> Some(5),
      gearbox |-> None, fuel |-> Some(T_Diesel)],
     [brand |-> Some(T_DAF), configuration |-> Some(T_4X2), euro |-> Some(6),
      gearbox |-> Some(T_HANDGESCHAKELD), fuel |-> None],
     [brand |-> Some(T_Citroen_padded), configuration |-> Some(T_4X2), euro |-> Some(6),
      gearbox |-> Some(T_MANUAL), fuel |-> Some(T_lng)]}

NoExact ==
    [brand |-> None, configuration |-> None, euro |-> None,
     gearbox |-> None, fuel |-> None]

ExactFilters ==
    {SearchFilters(x) :
        x \in {NoExact}
           \cup {[NoExact EXCEPT !.brand = Some(t)] : t \in {T_DAF, T_daf, T_citroen, <<>>}}
           \cup {[NoExact EXCEPT !.configuration = Some(t)] : t \in {T_4x2, <<>>}}
           \cup {[NoExact EXCEPT !.euro = Some(n)] : n \in {6, 0}}
           \cup {[NoExact EXCEPT !.gearbox = Some(t)] : t \in {T_automatic, T_MANUAL, <<>>}}
           \cup {[NoExact EXCEPT !.fuel = Some(t)] : t \in {T_Diesel, <<>>}}
           \cup {[NoExact EXCEPT !.brand = Some(T_daf), !.gearbox = Some(T_manual)]}}

InitExact == InitWith(Files(ExactRows, MaxRows), Builds)

NextExact ==
    \/ LoadInventory
    \/ \E f \in ExactFilters : SearchInventoryDirect(f)

SpecExact == InitExact /\ [][NextExact]_vars

\* Substring columns: model and cabin, with filter texts that hold the
\* metacharacters of regular expressions and texts that do not compile.
FuzzyRows ==
    {[model |-> m, cabin |-> Some(T_SPACE_CAB)] :
        m \in {None, Some(T_XF105), Some(T_ACTROS)}}
    \cup {[model |-> Some(T_XF), cabin |-> c] :
        c \in {None, Some(T_GLOBETROTTER), Some(T_DAY_CAB), Some(T_L_CAB)}}

FuzzyFilters ==
    {SearchFilters([model |-> m, cabin |-> None]) :
        m \in {None, Some(T_XF), Some(T_xf), Some(T_ACT), Some(T_A_dot_T), Some(<<>>),
               Some(T_a_star), Some(T_caret_xf), Some(T_open_paren)}}
    \cup {SearchFilters([model |-> None, cabin |-> c]) :
        c \in {Some(T_SLEEPER), Some(T_sleeper), Some(T_DAY), Some(T_day_cab),
               Some(T_L_CAB), Some(T_L_dot_CAB), Some(T_XL_bar_CAB), Some(<<>>),
               Some(T_cab_dollar), Some(T_open_bracket)}}

InitFuzzy == InitWith(Files(FuzzyRows, MaxRows), Builds)

NextFuzzy ==
    \/ LoadInventory
    \/ \E f \in FuzzyFilters : SearchInventoryDirect(f)

SpecFuzzy == InitFuzzy /\ [][NextFuzzy]_vars

\* Ranking: the sort columns, with one damaged row that never qualifies.
RankRows ==
    {[internet_price |-> None, power |-> Some(1), mileage |-> Some(3),
      is_damaged |-> Bool(FALSE)],
     [internet_price |-> Some(0), power |-> Some(2), mileage |-> Some(2),
      is_damaged |-> Bool(FALSE)],
     [internet_price |-> Some(1), power |-> Some(3), mileage |-> Some(1),
      is_damaged |-> Bool(FALSE)],
     [internet_price |-> Some(2), power |-> Some(2), mileage |-> None,
      is_damaged |-> Bool(FALSE)],
     [internet_price |-> Some(1), power |-> None, mileage |-> Some(2),
      is_damaged |-> Bool(TRUE)]}

RankFilters ==
    {SearchFilters([sort_by |-> Some(k), limit |-> n]) :
        k \in {"price_asc", "price_desc", "mileage_asc", "power_desc"},
        n \in {1, 2}}
    \cup {SearchFilters([limit |-> n]) : n \in {0 - 1, 0}}

\* The payloads given to the tool: a text that is not JSON, the empty
\* object, and objects with some of the fields.
RankPayloads ==
    {NotJson,
     JObject(<<>>),
     JObject([sort_by |-> JStr("power_desc"), limit |-> JInt(1)]),
     JObject([limit |-> JInt(0 - 1)])}

InitRank == InitWith(Files(RankRows, MaxRankRows), Builds)

NextRank ==
    \/ LoadInventory
    \/ \E f \in RankFilters : SearchInventoryDirect(f)
    \/ \E p \in RankPayloads : SearchInventory(p)

SpecRank == InitRank /\ [][NextRank]_vars

\* Ordering: up to MaxOrderRows qualifying rows under each sort key, cut by
\* no limit, and stores of TiedLen rows with runs of equal keys, cut by the
\* default limit.
MaxOrderRows == 4

OrderRows ==
    {[internet_price |-> Some(0), power |-> Some(2), mileage |-> Some(2)],
     [internet_price |-> Some(30000), power |-> Some(3), mileage |-> None],
     [internet_price |-> Some(10000), power |-> None, mileage |-> Some(1)],
     [internet_price |-> None, power |-> Some(1), mileage |-> Some(3)]}

OrderFilters ==
    {SearchFilters([sort_by |-> k]) :
        k \in {None, Some("price_asc"), Some("price_desc"), Some("mileage_asc"),
               Some("power_desc")}}

\* Stores long enough for quicksort to partition: SMALL_QUICKSORT + 2 rows
\* that repeat one row of OrderRows or alternate between two.
TiedLen == SMALL_QUICKSORT + 2

\* The builds of the ordering runs: the scalar one, and for each order of
\* the first MaxTied positions a vectorised one that leaves equal keys in
\* that order.
MaxTied == 2

OrderBuilds ==
    {ScalarBuild}
    \cup {SimdBuild(rank) :
              rank \in {p \in [1..MaxTied -> 1..MaxTied] :
                           \A i, j \in 1..MaxTied : p[i] = p[j] => i = j}}

TiedFiles ==
    {[i \in 1..TiedLen |->
         Merge([BaseRow EXCEPT !.vehicle_id = 100 + i],
               IF i % 2 = 1 THEN v ELSE w)] : v, w \in OrderRows}

InitOrder == InitWith(Files(OrderRows, MaxOrderRows) \cup TiedFiles, OrderBuilds)

NextOrder ==
    \/ LoadInventory
    \/ \E f \in OrderFilters : SearchInventoryDirect(f)

SpecOrder == InitOrder /\ [][NextOrder]_vars

\* The sort key: the rows of OrderRows searched with a sort_by that is
\* absent, null, empty, unrecognized, differently cased, recognized, or
\* not a text.
MaxSortKeyRows == 3

SortKeyFilters ==
    {SearchFilters([sort_by |-> k]) :
        k \in {None, Some(""), Some("newest"), Some("price_desc")}}

SortKeyPayloads ==
    {JObject(<<>>),
     JObject([sort_by |-> JNull]),
     JObject([sort_by |-> JStr("newest")]),
     JObject([sort_by |-> JStr("PRICE_DESC")]),
     JObject([sort_by |-> JStr("power_desc")]),
     JObject([sort_by |-> JInt(1)])}

InitSortKey == InitWith(Files(OrderRows, MaxSortKeyRows), Builds)

NextSortKey ==
    \/ LoadInventory
    \/ \E f \in SortKeyFilters : SearchInventoryDirect(f)
    \/ \E p \in SortKeyPayloads : SearchInventory(p)

SpecSortKey == InitSortKey /\ [][NextSortKey]_vars

\* Lookups and comparisons: stores whose ids are 101, 102, ..., one variant
\* repeating the id 101, queried for present and absent ids, with searches
\* in between.
LookupRows ==
    {[brand |-> Some(T_DAF), power |-> Some(2)],
     [brand |-> Some(T_MAN), power |-> Some(3)],
     [brand |-> None, power |-> None],
     [vehicle_id |-> 101, brand |-> Some(T_MAN), power |-> Some(2)]}

LookupIds == {101, 102, 999}

CompareLists ==
    {<<>>, <<101>>, <<999>>,
     <<101, 102>>, <<102, 101>>, <<101, 101>>, <<101, 999>>,
     <<999, 101, 998>>, <<102, 103, 101>>,
     <<101, 102, 101, 102, 101>>,
     <<101, 102, 101, 102, 101, 102>>,
     <<102, 999, 101, 102, 101, 102>>}

LookupFilters ==
    {SearchFilters(<<>>),
     SearchFilters([brand |-> Some(T_MAN)]),
     SearchFilters([sort_by |-> Some("power_desc")]),
     SearchFilters([sort_by |-> Some("power_desc"), limit |-> 1])}

LookupPayloads == {NotJson, JObject([brand |-> JStr(T_DAF)])}

InitLookup == InitWith(Files(LookupRows, MaxRows), Builds)

NextLookup ==
    \/ LoadInventory
    \/ \E vehicle_id \in LookupIds : GetVehicleById(vehicle_id)
    \/ \E vehicle_id \in LookupIds : GetVehicleDetails(vehicle_id)
    \/ \E vehicle_ids \in CompareLists : CompareVehicles(vehicle_ids)
    \/ \E f \in LookupFilters : SearchInventoryDirect(f)
    \/ \E p \in LookupPayloads : SearchInventory(p)

SpecLookup == InitLookup /\ [][NextLookup]_vars

\* The tool interface: payloads that are not JSON, JSON values that are not
\* objects, objects with fields of the declared types, of convertible and
\* of unconvertible types, objects with keys SearchFilters does not declare,
\* filters no row satisfies, and a model text that is not a regular
\* expression.
ToolRows ==
    {[brand |-> Some(T_DAF), power |-> Some(2), is_damaged |-> Bool(FALSE)],
     [brand |-> Some(T_MAN), power |-> Some(3), is_damaged |-> Bool(FALSE)],
     [brand |-> None, power |-> Some(1), is_damaged |-> Bool(FALSE)],
     [brand |-> Some(T_DAF), power |-> Some(3), is_damaged |-> Bool(TRUE)]}

ToolPayloads ==
    {NotJson, JNull, JList, JInt(3), JStr(T_DAF),
     JObject(<<>>),
     JObject([brand |-> JStr(T_DAF)]),
     JObject([brand |-> JStr(T_XF)]),
     JObject([brand |-> JStr(T_MAN), limit |-> JInt(1)]),
     JObject([brand |-> JStr(T_MAN), limit |-> JNull]),
     JObject([brand |-> JInt(5)]),
     JObject([limit |-> JStr(T_1)]),
     JObject([limit |-> JStr(T_ACT)]),
     JObject([limit |-> JList]),
     JObject([min_power |-> JInt(3), max_power |-> JInt(1)]),
     JObject([min_power |-> JStr(T_3), is_damaged |-> JBool(TRUE)]),
     JObject([is_damaged |-> JStr(T_yes), brand |-> JNull]),
     JObject([is_damaged |-> JStr(T_ACT)]),
     JObject([limit |-> JBool(TRUE), is_new |-> JInt(0)]),
     JObject([brnad |-> JStr(T_MAN)]),
     JObject([brand |-> JStr(T_DAF), colour |-> JInt(3)]),
     JObject([limit |-> JStr(T_3_lead)]),
     JObject([limit |-> JStr(T_3_trail)]),
     JObject([min_power |-> JStr(T_3_0)]),
     JObject([min_power |-> JStr(T_3_5)]),
     JObject([euro |-> JStr(T_1_000)]),
     JObject([limit |-> JStr(T_0_minus_1)]),
     JObject([limit |-> JStr(T_0_minus_01)]),
     JObject([min_power |-> JStr(T_3_dot)]),
     JObject([max_power |-> JStr(T_plus_minus_3)]),
     JObject([euro |-> JStr(T_minus_under_1)]),
     JObject([min_price |-> JStr(T_1_000_lead)]),
     JObject([max_price |-> JStr(T_1_000)]),
     JObject([min_price |-> JStr(T_3_5)]),
     JObject([min_price |-> JStr(T_1e2)]),
     JObject([max_price |-> JStr(T_2_5)]),
     JObject([max_price |-> JStr(T_nan)]),
     JObject([max_price |-> JStr(T_ACT)]),
     JObject([min_price |-> JFloat(Ratio(3, 2)), limit |-> JFloat(Float(1))]),
     JObject([max_power |-> JFloat(Ratio(5, 2))]),
     JObject([model |-> JStr(T_open_paren)])}

ToolFilters ==
    {SearchFilters([brand |-> Some(T_XF)]),
     SearchFilters([min_power |-> Some(3), max_power |-> Some(1)]),
     SearchFilters([brand |-> Some(T_MAN), min_power |-> Some(3)]),
     SearchFilters([brand |-> Some(T_DAF), max_power |-> Some(2), limit |-> 1])}

InitTool == InitWith(Files(ToolRows, MaxRows), Builds)

NextTool ==
    \/ LoadInventory
    \/ \E p \in ToolPayloads : SearchInventory(p)
    \/ \E f \in ToolFilters : SearchInventoryDirect(f)

SpecTool == InitTool /\ [][NextTool]_vars

\* Ingestion: raw gearbox texts in the source language and in English, in
\* mixed case and padded, and raw flag cells of every kind read_csv yields.
GearTexts ==
    {None, Some(T_AUTOMAAT), Some(T_automaat_padded), Some(T_Handgeschakeld),
     Some(T_HALFAUTOMAAT), Some(T_Automatic_padded), Some(T_ECO)}

FlagCells ==
    {NaN, Bool(TRUE), Bool(FALSE), Text(<<>>), Text(T_blank),
     Text(T_TRUE_padded), Text(T_1), Text(T_Yes), Text(T_no)}

IngestRows ==
    {[gearbox |-> g] : g \in GearTexts}
    \cup {[is_new |-> c, is_damaged |-> c, retarder |-> c, has_airco |-> c,
            has_hydraulics |-> c] : c \in FlagCells}

IngestFilters ==
    {SearchFilters(<<>>),
     SearchFilters([gearbox |-> Some(T_automatic), is_damaged |-> Some(TRUE)]),
     SearchFilters([is_new |-> Some(TRUE)])}

InitIngest == InitWith(Files(IngestRows, MaxRows), Builds)

NextIngest ==
    \/ LoadInventory
    \/ \E f \in IngestFilters : SearchInventoryDirect(f)
    \/ \E vehicle_id \in {101, 102} : GetVehicleById(vehicle_id)

SpecIngest == InitIngest /\ [][NextIngest]_vars

\* Loading under concurrency: the startup load and two query threads over
\* files whose every normalised column differs from its raw form.
MaxLoadRows == 1

LoadRows ==
    {[gearbox |-> Some(T_automaat_padded), is_damaged |-> Text(T_no)],
     [gearbox |-> None, brand |-> Some(T_daf_padded), is_new |-> Text(T_Yes)]}

InitLoad ==
    /\ csv_file \in Files(LoadRows, MaxLoadRows)
    /\ df = None
    /\ numpy_build \in Builds
    /\ op = "start"
    /\ request = None
    /\ filters = None
    /\ results_df = <<>>
    /\ response = [error |-> FALSE, message |-> "", count |-> None,
                   vehicles |-> <<>>, not_found |-> <<>>]
    /\ calls = [t \in Threads |-> IdleCall]
    /\ reads = 0
    /\ node = "idle"
    /\ messages = <<>>
    /\ cards = <<>>

NextLoad ==
    \/ LifespanLoad
    \/ \E t \in Queries, kind \in QueryKinds : GetDataframeCheck(t, kind)
    \/ \E t \in Threads : LoadReadCsv(t)
    \/ \E t \in Threads : LoadGearbox(t)
    \/ \E t \in Threads : LoadFuel(t)
    \/ \E t \in Threads : LoadBrand(t)
    \/ \E t \in Threads : LoadCabin(t)
    \/ \E t \in Threads : LoadConfiguration(t)
    \/ \E t \in Threads : LoadModel(t)
    \/ \E t \in Threads : LoadBools(t)
    \/ \E t \in Threads : LoadPublish(t)
    \/ \E t \in Queries : GetDataframeReturn(t)
    \/ \E t \in Queries : QueryDone(t)

SpecLoad == InitLoad /\ [][NextLoad]_vars

\* The agent: conversations over a store loaded at startup, one of whose
\* rows may carry the id 0; each answer of the model carries one of these
\* lists of tool calls.
MaxAgentRows == 2

AgentRows ==
    {[brand |-> Some(T_DAF)],
     [vehicle_id |-> 0, brand |-> Some(T_MAN)]}

ToolCallLists ==
    {<<>>,
     <<ToolCall("search_inventory", [filters_json |-> JObject(<<>>)])>>,
     <<ToolCall("search_inventory",
                [filters_json |-> JObject([brand |-> JStr(T_MAN)])])>>,
     <<ToolCall("search_inventory", [filters_json |-> NotJson])>>,
     <<ToolCall("get_vehicle_details", [vehicle_id |-> 101])>>,
     <<ToolCall("get_vehicle_details", [vehicle_id |-> 0])>>,
     <<ToolCall("get_vehicle_details", [vehicle_id |-> 999])>>,
     <<ToolCall("compare_vehicles", [vehicle_ids |-> <<101, 102>>])>>,
     <<ToolCall("compare_vehicles", [vehicle_ids |-> <<101>>])>>,
     <<BadToolCall("get_vehicle_details")>>,
     <<BadToolCall("get_weather")>>,
     <<ToolCall("search_inventory",
                [filters_json |-> JObject([model |-> JStr(T_open_paren)])])>>,
     <<ToolCall("search_inventory", [filters_json |-> JObject(<<>>)]),
       ToolCall("get_vehicle_details", [vehicle_id |-> 999])>>}

InitAgent ==
    /\ csv_file \in Files(AgentRows, MaxAgentRows)
    /\ df = Some(load_inventory(csv_file))
    /\ numpy_build \in Builds
    /\ op = "start"
    /\ request = None
    /\ filters = None
    /\ results_df = <<>>
    /\ response = [error |-> FALSE, message |-> "", count |-> None,
                   vehicles |-> <<>>, not_found |-> <<>>]
    /\ calls = <<>>
    /\ reads = 1
    /\ node = "idle"
    /\ messages = <<>>
    /\ cards = <<>>

NextAgent ==
    \/ ChatInvoke
    \/ \E tool_calls \in ToolCallLists : ChatbotNode(tool_calls)
    \/ ChatbotNodeRaises
    \/ ToolsNode
    \/ ToolsNodeRaises
    \/ ChatRespond

SpecAgent == InitAgent /\ [][NextAgent]_vars

-----------------------------------------------------------------------------
(* Claims about the flag filters, checked under SpecFlags                  *)

\* The last operation was a search that got as far as _apply_filters.
Applied == op \in {"search_inventory_direct", "search_inventory"} /\ filters # None

\* The last operation ended in an exception.
HasRaised == "raised" \in DOMAIN response

\* The last operation was a search that returned its result.
Searched == Applied /\ ~HasRaised

\* The rows the last search would have returned for the filters g.
Returned(g) == Range(_apply_filters(Val(df), g, numpy_build))

\* C1 - Damage default: a search whose is_damaged filter is absent or false
\* returns no record flagged damaged, and a record whose damaged flag is
\* unknown is returned exactly when it is returned with the rule switched off
\* (is_damaged = true).
C1_DamageDefault ==
    (Searched /\ Val(filters).is_damaged \in {None, Some(FALSE)}) =>
        LET d == Val(df)
            f == Val(filters)
        IN  /\ \A k \in 1..Len(results_df) :
                   /\ d[results_df[k]].is_damaged # Some(TRUE)
                   /\ response.vehicles[k].is_damaged # Some(TRUE)
            /\ \A i \in 1..Len(d) :
                   d[i].is_damaged = None =>
                       (i \in Range(results_df)
                           <=> i \in Returned([f EXCEPT !.is_damaged = Some(TRUE)]))

\* A default search over a store with a damaged row and a row of unknown
\* damage: the first is left out, the second is returned.
C1_Witness ==
    /\ Searched
    /\ Val(filters).is_damaged = None
    /\ \E i, j \in 1..Len(Val(df)) :
           /\ Val(df)[i].is_damaged = Some(TRUE)
           /\ i \notin Range(results_df)
           /\ Val(df)[j].is_damaged = None
           /\ j \in Range(results_df)

\* C7 - is_new tri-state: with is_new = true the result is the rows of the
\* unrestricted result flagged new; with is_new = false it is the rows of
\* the unrestricted result not flagged new (false or unknown); the
\* unrestricted result (is_new absent) is the union of the two.
C7_IsNewTriState ==
    Searched =>
        LET d   == Val(df)
            f   == Val(filters)
            all == Returned([f EXCEPT !.is_new = None])
        IN  /\ f.is_new = Some(TRUE) =>
                   Range(results_df) = {i \in all : d[i].is_new = Some(TRUE)}
            /\ f.is_new = Some(FALSE) =>
                   Range(results_df) =
                       {i \in all : d[i].is_new \in {Some(FALSE), None}}
            /\ f.is_new = None =>
                   Range(results_df) =
                       Returned([f EXCEPT !.is_new = Some(TRUE)])
                           \cup Returned([f EXCEPT !.is_new = Some(FALSE)])

\* A search with is_new = false that returns a row of unknown is_new and
\* leaves out a row flagged new.
C7_Witness ==
    /\ Searched
    /\ Val(filters).is_new = Some(FALSE)
    /\ \E i, j \in 1..Len(Val(df)) :
           /\ Val(df)[i].is_new = None
           /\ i \in Range(results_df)
           /\ Val(df)[j].is_new = Some(TRUE)
           /\ Val(df)[j].is_damaged = Some(FALSE)
           /\ j \notin Range(results_df)

\* C8 - has_retarder and has_airco are inert: replacing the two fields of
\* the filter by any other values gives the same rows in the same order.
C8_RetarderAircoInert ==
    Searched =>
        \A r \in TriBool, a \in TriBool :
            _apply_filters(Val(df),
                           [Val(filters) EXCEPT !.has_retarder = r, !.has_airco = a],
                           numpy_build) = results_df

\* A search asking for a retarder that returns a row without one.
C8_Witness ==
    /\ Searched
    /\ Val(filters).has_retarder = Some(TRUE)
    /\ \E k \in 1..Len(results_df) :
           Val(df)[results_df[k]].retarder # Some(TRUE)

-----------------------------------------------------------------------------
(* Claims about the numeric bounds, checked under SpecPrice and SpecRange  *)

\* A known value within the supplied bounds, each inclusive, an absent bound
\* open on its side.
Within(cell, lo, hi) ==
    /\ cell # None
    /\ lo # None => Val(cell) >= Val(lo)
    /\ hi # None => Val(cell) <= Val(hi)

\* The same for a price and its bounds, which are finite floats num / den.
WithinPrice(cell, lo, hi) ==
    /\ cell # None
    /\ lo # None => Val(cell) * Val(lo).den >= Val(lo).num
    /\ hi # None => Val(cell) * Val(hi).den <= Val(hi).num

\* C2 - Price-bound precondition: with min_price or max_price set, the
\* result is the rows of the unbounded result whose price is known, > 0 and
\* within the bounds; with neither set, a row of zero or unknown price is
\* returned exactly when it is returned with its price replaced by a
\* positive one.
C2_PriceBound ==
    Searched =>
        LET d == Val(df)
            f == Val(filters)
            unbounded == Returned([f EXCEPT !.min_price = None, !.max_price = None])
        IN  /\ (f.min_price # None \/ f.max_price # None) =>
                   /\ Range(results_df) =
                          {i \in unbounded :
                              /\ WithinPrice(d[i].internet_price, f.min_price, f.max_price)
                              /\ Val(d[i].internet_price) > 0}
                   /\ \A k \in 1..Len(results_df) :
                          /\ WithinPrice(response.vehicles[k].internet_price,
                                         f.min_price, f.max_price)
                          /\ Val(response.vehicles[k].internet_price) > 0
            /\ (f.min_price = None /\ f.max_price = None) =>
                   \A i \in 1..Len(d) :
                       d[i].internet_price \in {None, Some(0)} =>
                           (i \in Range(results_df) <=>
                                i \in Range(_apply_filters(
                                         [d EXCEPT ![i].internet_price = Some(1)],
                                         f, numpy_build)))

\* A search bounded only from above that leaves out a zero-price row, which
\* lies below the bound, and returns a priced row.
C2_Witness ==
    /\ Searched
    /\ Val(filters).min_price = None
    /\ Val(filters).max_price # None
    /\ \E i, j \in 1..Len(Val(df)) :
           /\ Val(df)[i].internet_price = Some(0)
           /\ i \notin Range(results_df)
           /\ j \in Range(results_df)

\* C3 - Range containment: the result is the rows of the result without the
\* power, mileage and bed bounds whose power, mileage and bed_amount are
\* known and within each supplied bound (inclusive); a field without a
\* supplied bound does not restrict.
C3_RangeContainment ==
    Searched =>
        LET d == Val(df)
            f == Val(filters)
            free == Returned([f EXCEPT !.min_power = None, !.max_power = None,
                                       !.min_mileage = None, !.max_mileage = None,
                                       !.min_beds = None])
            Ok(cell, lo, hi) == (lo = None /\ hi = None) \/ Within(cell, lo, hi)
        IN  /\ Range(results_df) =
                   {i \in free :
                       /\ Ok(d[i].power, f.min_power, f.max_power)
                       /\ Ok(d[i].mileage, f.min_mileage, f.max_mileage)
                       /\ Ok(d[i].bed_amount, f.min_beds, None)}
            /\ \A k \in 1..Len(results_df) :
                   /\ Ok(response.vehicles[k].power, f.min_power, f.max_power)
                   /\ Ok(response.vehicles[k].mileage, f.min_mileage, f.max_mileage)
                   /\ Ok(response.vehicles[k].bed_amount, f.min_beds, None)

\* A search with a power bound over a store with a row of unknown power,
\* left out, and a row exactly on the bound, returned.
C3_Witness ==
    /\ Searched
    /\ Val(filters).min_power # None
    /\ \E i, j \in 1..Len(Val(df)) :
           /\ Val(df)[i].power = None
           /\ i \notin Range(results_df)
           /\ Val(df)[j].power = Val(filters).min_power
           /\ j \in Range(results_df)

-----------------------------------------------------------------------------
(* Claims about the text filters, checked under SpecExact and SpecFuzzy    *)

\* Two texts equal up to case.
SameText(a, b) == Upper(a) = Upper(b)

\* The filter of the last search without its five exact-match fields.
WithoutExact(f) ==
    [f EXCEPT !.brand = None, !.configuration = None, !.euro = None,
              !.gearbox = None, !.fuel = None]

\* A known text equal, up to case, to the text the filter asks for.
Equals(cell, wanted) == cell # None /\ SameText(Val(cell), Val(wanted))

\* C4 as amended - Exact-match fields: for each of brand, configuration,
\* gearbox and fuel that the filter supplies as a non-empty text, and for
\* euro when supplied, the result is the rows of the result without these
\* fields whose field is known and equal to the supplied value (up to case
\* for the texts); a field supplied as the empty text does not restrict.
C4_ExactMatch ==
    Searched =>
        LET d == Val(df)
            f == Val(filters)
            On(o) == o # None /\ Val(o) # <<>>
        IN  Range(results_df) =
                {i \in Returned(WithoutExact(f)) :
                    /\ On(f.brand) => Equals(d[i].brand, f.brand)
                    /\ On(f.configuration) => Equals(d[i].configuration, f.configuration)
                    /\ f.euro # None => d[i].euro = f.euro
                    /\ On(f.gearbox) => Equals(d[i].gearbox, f.gearbox)
                    /\ On(f.fuel) => Equals(d[i].fuel, f.fuel)}

\* A search for brand "daf" that returns a DAF row and leaves out a row of
\* unknown brand.
C4_Witness ==
    /\ Searched
    /\ Val(filters).brand = Some(T_daf)
    /\ \E i, j \in 1..Len(Val(df)) :
           /\ Val(df)[i].brand = None
           /\ i \notin Range(results_df)
           /\ Val(df)[j].brand = Some(T_DAF)
           /\ j \in Range(results_df)

\* C4 as stated - whenever the filter supplies a value for one of the five
\* fields, the empty text included, every returned row has that field known
\* and equal to it.
C4_AsStated ==
    Searched =>
        LET d == Val(df)
            f == Val(filters)
        IN  \A k \in 1..Len(results_df) :
                LET row == d[results_df[k]]
                IN  /\ f.brand # None => Equals(row.brand, f.brand)
                    /\ f.configuration # None => Equals(row.configuration, f.configuration)
                    /\ f.euro # None => row.euro = f.euro
                    /\ f.gearbox # None => Equals(row.gearbox, f.gearbox)
                    /\ f.fuel # None => Equals(row.fuel, f.fuel)

\* C5 - Model filter: for a non-empty model filter the search returns, and
\* its result is the rows of the result without the model filter whose
\* model is known and contains the filter text, up to case, as a literal
\* substring.
C5_ModelLiteralSubstring ==
    (Applied /\ Truthy(Val(filters).model)) =>
        LET d == Val(df)
            f == Val(filters)
        IN  /\ ~HasRaised
            /\ Range(results_df) =
                   {i \in Returned([f EXCEPT !.model = None]) :
                       /\ d[i].model # None
                       /\ Contains(Upper(Val(f.model)), Upper(Val(d[i].model)))}

\* C6 - Cabin filter: for a non-empty keyword the search returns; for the
\* keyword SLEEPER (any case) the result is the rows of the result without
\* the cabin filter whose cabin is known and contains one of the thirteen
\* keywords; for any other keyword, those whose cabin is known and contains
\* the keyword, up to case, as a literal substring.
C6_CabinTwoModes ==
    (Applied /\ Truthy(Val(filters).cabin)) =>
        LET d == Val(df)
            f == Val(filters)
            kw == Upper(Val(f.cabin))
            free == Returned([f EXCEPT !.cabin = None])
        IN  /\ ~HasRaised
            /\ IF kw = T_SLEEPER
               THEN Range(results_df) =
                        {i \in free :
                            /\ d[i].cabin # None
                            /\ \E w \in Range(sleeper_keywords) :
                                   Contains(w, Upper(Val(d[i].cabin)))}
               ELSE Range(results_df) =
                        {i \in free :
                            /\ d[i].cabin # None
                            /\ Contains(kw, Upper(Val(d[i].cabin)))}

-----------------------------------------------------------------------------
(* Claims about ranking and truncation, checked under SpecRank             *)

\* Row b is strictly better placed than row a under the sort of f: its key
\* is known and a's is not, or both are known and b's comes first.
StrictlyFirst(d, f, b, a) ==
    LET kb == SortKey(d[b], f)
        ka == SortKey(d[a], f)
    IN  /\ kb # None
        /\ \/ ka = None
           \/ IF sort_asc(f) THEN Val(kb) < Val(ka) ELSE Val(kb) > Val(ka)

\* C9 - Limit only truncates: the result is the first rows of the ranking
\* obtained with a limit that cuts nothing (min(limit, qualifying) of them;
\* for a negative limit all but the last |limit|), no row left out is
\* strictly better placed by the sort key than a row returned, and the
\* returned rows are in sort order.
C9_LimitOnlyTruncates ==
    Searched =>
        LET d == Val(df)
            f == Val(filters)
            full == _apply_filters(d, [f EXCEPT !.limit = Len(d)], numpy_build)
            n == IF f.limit >= 0 THEN Min(f.limit, Len(full))
                 ELSE Max(0, Len(full) + f.limit)
        IN  /\ results_df = SubSeq(full, 1, n)
            /\ \A a \in Range(results_df) :
                   \A b \in Range(full) \ Range(results_df) :
                       ~StrictlyFirst(d, f, b, a)
            /\ \A j, k \in 1..Len(results_df) :
                   j < k => ~StrictlyFirst(d, f, results_df[k], results_df[j])

\* A search whose limit cuts the qualifying rows and whose first returned
\* row is not the first qualifying row of the store.
C9_Witness ==
    /\ Searched
    /\ Val(filters).limit >= 1
    /\ Len(results_df) = Val(filters).limit
    /\ Len(Selected(Val(df), Val(filters))) > Val(filters).limit
    /\ results_df[1] # Selected(Val(df), Val(filters))[1]

\* C10 - Limit respected: a search returns at most `limit` records (none
\* when the limit is below zero), and the count the tool reports is the
\* number of vehicles it returns.
C10_LimitRespected ==
    Searched =>
        /\ Len(response.vehicles) <= Max(Val(filters).limit, 0)
        /\ op = "search_inventory" => response.count = Some(Len(response.vehicles))

-----------------------------------------------------------------------------
(* Claims about the order of the result, checked under SpecOrder           *)

\* The internet_price column of a frame.
Prices(d) == [i \in 1..Len(d) |-> d[i].internet_price]

\* The last search sorted by price ascending: asked for, or by default.
PriceAscending ==
    Searched /\ Val(filters).sort_by \in {None, Some("price_asc")}

\* C11 - Price-ascending zero push-down: under price_asc no record of zero
\* or unknown price comes before a record of positive price, the positive
\* prices are in non-decreasing order, the zero-price records keep their
\* store order; and the store of prices [0, 30000, 0, 10000] is returned as
\* [10000, 30000, 0, 0], the first zero record before the second.
C11_ZeroPushDown ==
    PriceAscending =>
        LET d == Val(df)
            price(k) == d[results_df[k]].internet_price
            Positive(k) == price(k) # None /\ Val(price(k)) > 0
        IN  /\ \A j, k \in 1..Len(results_df) :
                   j < k =>
                       /\ ~(~Positive(j) /\ Positive(k))
                       /\ (Positive(j) /\ Positive(k)) =>
                              Val(price(j)) <= Val(price(k))
                       /\ (price(j) = Some(0) /\ price(k) = Some(0)) =>
                              results_df[j] < results_df[k]
            /\ \A k \in 1..Len(results_df) :
                   response.vehicles[k].internet_price = price(k)
            /\ Prices(d) = <<Some(0), Some(30000), Some(0), Some(10000)>> =>
                   results_df = <<4, 2, 1, 3>>

\* The store of prices [0, 30000, 0, 10000] searched by price ascending and
\* returned as [10000, 30000, 0, 0].
C11_Witness ==
    /\ PriceAscending
    /\ Prices(Val(df)) = <<Some(0), Some(30000), Some(0), Some(10000)>>
    /\ [k \in 1..Len(response.vehicles) |-> response.vehicles[k].internet_price]
           = <<Some(10000), Some(30000), Some(0), Some(0)>>

\* The column the sort key names.
KeyColumn(f) ==
    IF f.sort_by = Some("mileage_asc") THEN "mileage"
    ELSE IF f.sort_by = Some("power_desc") THEN "power"
    ELSE "internet_price"

\* The direction the sort key names.
Descending(f) == f.sort_by \in {Some("price_desc"), Some("power_desc")}

\* The returned rows are ordered as the null policy asks, for a given
\* reading of "unknown": no unknown row before a known one, and the known
\* values in the requested direction.
NullsLast(Unknown(_)) ==
    LET d == Val(df)
        f == Val(filters)
        value(k) == d[results_df[k]][KeyColumn(f)]
    IN  \A j, k \in 1..Len(results_df) :
            j < k =>
                /\ ~(Unknown(value(j)) /\ ~Unknown(value(k)))
                /\ (~Unknown(value(j)) /\ ~Unknown(value(k))) =>
                       IF Descending(f)
                       THEN Val(value(j)) >= Val(value(k))
                       ELSE Val(value(j)) <= Val(value(k))

\* C12 as amended - Null sort policy: for each sort key, every record whose
\* value on the sort dimension is unknown - under price_asc a price of
\* exactly zero counts as unknown too - is ordered after every record whose
\* value is known, ascending or descending, and the known values appear in
\* the requested direction.
C12_NullsLast ==
    Searched =>
        NullsLast(LAMBDA v : \/ v = None
                             \/ /\ KeyColumn(Val(filters)) = "internet_price"
                                /\ ~Descending(Val(filters))
                                /\ v = Some(0))

\* A descending sort by power that returns a row of unknown power after a
\* row of known power that follows it in the store.
C12_Witness ==
    /\ Searched
    /\ Val(filters).sort_by = Some("power_desc")
    /\ \E j, k \in 1..Len(results_df) :
           /\ j < k
           /\ results_df[j] > results_df[k]
           /\ Val(df)[results_df[j]].power # None
           /\ Val(df)[results_df[k]].power = None

\* C12 as stated - only a missing value is unknown, for price_asc as for
\* the other keys: no record of missing value before a record with a value,
\* and the values, zero included, in the requested direction.
C12_AsStated ==
    Searched => NullsLast(LAMBDA v : v = None)

-----------------------------------------------------------------------------
(* Claims about lookup and comparison, checked under SpecLookup            *)

\* The ids of the rows of the store built from the file.
StoreIds == {csv_file[i].vehicle_id : i \in 1..Len(csv_file)}

\* The record the store holds for an id: the first row with that id.
Record(vehicle_id) ==
    LET d == load_inventory(csv_file)
        i == CHOOSE i \in 1..Len(d) :
                 /\ d[i].vehicle_id = vehicle_id
                 /\ \A j \in 1..(i - 1) : d[j].vehicle_id # vehicle_id
    IN  _row_to_tractor_head(d[i])

\* C13 - Comparison length validation: a call of compare_vehicles with
\* fewer than 2 or more than 5 ids returns an error naming the violated
\* bound, with no vehicle data and no list of missing ids, and looks
\* nothing up (the store is left as it was, unloaded if it was unloaded),
\* whether or not the ids exist.
C13_CompareLength ==
    [][(op' = "compare_vehicles" /\ ~(Len(request') \in 2..5)) =>
           /\ response'.error
           /\ response'.message =
                  IF Len(request') < 2
                  THEN "Please provide at least 2 vehicle IDs to compare."
                  ELSE "Please provide at most 5 vehicle IDs to compare."
           /\ response'.vehicles = <<>>
           /\ response'.count = None
           /\ response'.not_found = <<>>
           /\ df' = df]_vars

\* A comparison of six ids, one of them absent, rejected for its length
\* before the store was ever loaded.
C13_Witness ==
    /\ op = "compare_vehicles"
    /\ Len(request) = 6
    /\ \E k \in 1..Len(request) : request[k] \notin StoreIds
    /\ response.error
    /\ df = None

\* C14 - Comparison with missing ids: for 2 to 5 ids of which at least one
\* is not in the store, the comparison returns an error listing exactly the
\* ids that are not in the store, in input order, and no vehicle data.
C14_CompareMissing ==
    (/\ op = "compare_vehicles"
     /\ Len(request) \in 2..5
     /\ \E k \in 1..Len(request) : request[k] \notin StoreIds) =>
        /\ response.error
        /\ response.message = "Vehicles not found: "
        /\ response.not_found =
               SelectSeq(request, LAMBDA vid : vid \notin StoreIds)
        /\ response.vehicles = <<>>
        /\ response.count = None

\* A comparison of three ids, the first and the last absent: both reported.
C14_Witness ==
    /\ op = "compare_vehicles"
    /\ request = <<999, 101, 998>>
    /\ response.not_found = <<999, 998>>
    /\ response.vehicles = <<>>

\* C15 - Comparison success order: for 2 to 5 ids that are all in the
\* store, the comparison returns one record per input id, the k-th being
\* the store's record for the k-th id, and vehicle_count is the length of
\* the input list.
C15_CompareOrder ==
    (/\ op = "compare_vehicles"
     /\ Len(request) \in 2..5
     /\ \A k \in 1..Len(request) : request[k] \in StoreIds) =>
        /\ ~response.error
        /\ Len(response.vehicles) = Len(request)
        /\ \A k \in 1..Len(request) :
               /\ response.vehicles[k].vehicle_id = request[k]
               /\ response.vehicles[k] = Record(request[k])
        /\ response.count = Some(Len(request))
        /\ response.not_found = <<>>

\* A comparison of the second and the first vehicle of the store, returned
\* in that order.
C15_Witness ==
    /\ op = "compare_vehicles"
    /\ request = <<102, 101>>
    /\ ~response.error
    /\ Len(response.vehicles) = 2
    /\ response.vehicles[1].vehicle_id = 102
    /\ response.vehicles[2].vehicle_id = 101

\* C16 - Detail lookup: for an id that is not in the store,
\* get_vehicle_by_id returns None and get_vehicle_details an error object
\* about that id, both as ordinary return values; for an id that is in the
\* store both return the store's record for it.
C16_DetailLookup ==
    /\ op = "get_vehicle_by_id" =>
           /\ ~response.error
           /\ response.vehicles =
                  IF request \in StoreIds THEN Some(Record(request)) ELSE None
    /\ op = "get_vehicle_details" =>
           IF request \in StoreIds
           THEN /\ ~response.error
                /\ response.vehicles = Some(Record(request))
                /\ Val(response.vehicles).vehicle_id = request
           ELSE /\ response.error
                /\ response.message = "Vehicle with ID not found."
                /\ response.not_found = <<request>>
                /\ response.vehicles = None

\* A lookup of the absent id 999 in a loaded, non-empty store, answered by
\* the error object.
C16_Witness ==
    /\ op = "get_vehicle_details"
    /\ request = 999
    /\ df # None
    /\ Len(Val(df)) > 0
    /\ response.error
    /\ response.vehicles = None

-----------------------------------------------------------------------------
(* Claims about the tool interface, checked under SpecTool                 *)

\* What the validation of SearchFilters is expected to make of the texts
\* the payloads carry, field type by field type: the value read, or None
\* for a text that is rejected. For an integer field "1", "3", " 3", "3 "
\* and "3.0" read as their integer, "1_000" as 1000 and "0-1" as -1, while
\* "ACT", "3.5", "3.", "+-3", "-_1" and "0-01" are rejected.
IntReadings ==
    {<<T_1, Some(1)>>, <<T_3, Some(3)>>, <<T_3_lead, Some(3)>>,
     <<T_3_trail, Some(3)>>, <<T_3_0, Some(3)>>, <<T_1_000, Some(1000)>>,
     <<T_0_minus_1, Some(0 - 1)>>,
     <<T_ACT, None>>, <<T_3_5, None>>, <<T_3_dot, None>>,
     <<T_plus_minus_3, None>>, <<T_minus_under_1, None>>,
     <<T_0_minus_01, None>>}

\* For a price bound "3.5", "2.5", "1e2" and "1_000" read as their float
\* and "nan" as not-a-number, while "ACT" and " 1_000" are rejected.
FloatReadings ==
    {<<T_3_5, Some([num |-> 7, den |-> 2])>>,
     <<T_2_5, Some([num |-> 5, den |-> 2])>>,
     <<T_1e2, Some([num |-> 100, den |-> 1])>>,
     <<T_1_000, Some([num |-> 1000, den |-> 1])>>,
     <<T_nan, Some([num |-> 0, den |-> 0])>>,
     <<T_ACT, None>>, <<T_1_000_lead, None>>}

\* For a flag "yes" reads as true, while "ACT" is rejected.
FlagReadings == {<<T_yes, Some(TRUE)>>, <<T_ACT, None>>}

\* The expected reading of the text s in one of these tables.
Reading(table, s) == (CHOOSE entry \in table : entry[1] = s)[2]

\* A JSON value read as an integer: an integer, a boolean, a float without
\* fraction, a text expected to read as an integer.
Numeric(v) ==
    \/ v.j \in {"int", "bool"}
    \/ v.j = "float" /\ v.x.den = 1
    \/ v.j = "str" /\ Reading(IntReadings, v.s) # None

\* A JSON value read as a float: a number, a boolean, a text expected to
\* read as a float.
Fractional(v) ==
    \/ v.j \in {"int", "bool", "float"}
    \/ v.j = "str" /\ Reading(FloatReadings, v.s) # None

\* A JSON value read as a flag: a boolean, 0 or 1, a text expected to read
\* as a flag.
Flaglike(v) ==
    \/ v.j = "bool"
    \/ v.j = "int" /\ v.n \in {0, 1}
    \/ v.j = "float" /\ v.x \in {Float(0), Float(1)}
    \/ v.j = "str" /\ Reading(FlagReadings, v.s) # None

\* A JSON value that cannot be converted to the declared type of field k:
\* for a text field anything but a string or null, for an int field
\* anything but null or a value read as an integer, for a float field
\* anything but null or a value read as a float, for a flag field anything
\* but null or a value read as a flag, for limit anything but a value read
\* as an integer.
Unconvertible(k, v) ==
    IF k = "limit" THEN ~Numeric(v)
    ELSE IF k \in TextFields THEN ~(v.j \in {"str", "null"})
    ELSE IF k \in IntFields THEN ~(Numeric(v) \/ v.j = "null")
    ELSE IF k \in FloatFields THEN ~(Fractional(v) \/ v.j = "null")
    ELSE ~(Flaglike(v) \/ v.j = "null")

\* A JSON value whose JSON type is not the declared type of field k.
WrongType(k, v) ==
    IF k = "limit" THEN v.j # "int"
    ELSE IF k \in TextFields THEN ~(v.j \in {"str", "null"})
    ELSE IF k \in IntFields THEN ~(v.j \in {"int", "null"})
    ELSE IF k \in FloatFields THEN ~(v.j \in {"int", "float", "null"})
    ELSE ~(v.j \in {"bool", "null"})

\* The payload is not JSON, not a JSON object, or has a declared field for
\* which Bad holds.
Malformed(payload, Bad(_, _)) ==
    \/ payload.j # "object"
    \/ \E k \in DOMAIN payload.fields \cap DOMAIN DefaultFilters :
           Bad(k, payload.fields[k])

\* The value a convertible JSON value gives its field.
Converted(k, v) ==
    LET number == IF v.j = "int" THEN v.n
                  ELSE IF v.j = "bool" THEN (IF v.b THEN 1 ELSE 0)
                  ELSE IF v.j = "float" THEN v.x.num
                  ELSE Val(Reading(IntReadings, v.s))
        float  == IF v.j = "float" THEN v.x
                  ELSE IF v.j = "str" THEN Val(Reading(FloatReadings, v.s))
                  ELSE Float(number)
        flag   == IF v.j = "bool" THEN v.b
                  ELSE IF v.j = "int" THEN v.n = 1
                  ELSE IF v.j = "float" THEN v.x = Float(1)
                  ELSE Val(Reading(FlagReadings, v.s))
    IN  IF k = "limit" THEN number
        ELSE IF v.j = "null" THEN None
        ELSE IF k \in TextFields THEN Some(v.s)
        ELSE IF k \in IntFields THEN Some(number)
        ELSE IF k \in FloatFields THEN Some(float)
        ELSE Some(flag)

\* C17 as amended - Malformed filter payload: when filters_json is not
\* valid JSON, is not a JSON object, or has a field whose value the
\* validation of SearchFilters does not convert to the declared type (a
\* list, a number for a text field, null for limit, a number with a
\* fraction or a text such as "ACT", "3.5", "3.", "+-3", "-_1" for an
\* integer field, "ACT" or " 1_000" for a price bound, "ACT" for a flag),
\* search_inventory returns an error result with count 0 and no vehicles,
\* raises nothing, applies no filter and leaves the store as it was
\* (unloaded if it was unloaded); every other payload - one whose numbers
\* are written as texts that convert ("1", " 3", "3.0", "1_000", "0-1" read
\* as -1, "3.5" and "1e2" for a price bound, "yes" for a flag) included -
\* is searched with each supplied field at its converted value and the
\* others at their defaults.
C17_MalformedPayload ==
    [][op' = "search_inventory" =>
           IF Malformed(request', Unconvertible)
           THEN /\ response'.error
                /\ "raised" \notin DOMAIN response'
                /\ response'.count = Some(0)
                /\ response'.vehicles = <<>>
                /\ filters' = None
                /\ results_df' = <<>>
                /\ df' = df
           ELSE /\ ~response'.error
                /\ filters' # None
                /\ \A k \in DOMAIN DefaultFilters :
                       Val(filters')[k] =
                           IF k \in DOMAIN request'.fields
                           THEN Converted(k, request'.fields[k])
                           ELSE DefaultFilters[k]]_vars

\* A payload with a usable brand and a null limit, answered by the error
\* result before the store was ever loaded.
C17_Witness ==
    /\ op = "search_inventory"
    /\ request = JObject([brand |-> JStr(T_MAN), limit |-> JNull])
    /\ response.error
    /\ response.count = Some(0)
    /\ filters = None
    /\ df = None

\* C17 as stated - a payload that is not JSON, not a JSON object, or has a
\* field whose JSON type is not the declared one gets the error result with
\* count 0 and no vehicles.
C17_AsStated ==
    (op = "search_inventory" /\ Malformed(request, WrongType)) =>
        /\ response.error
        /\ response.count = Some(0)
        /\ response.vehicles = <<>>

\* The filter that keeps only field k of f, every other rule switched off.
Isolated(f, k) ==
    [[DefaultFilters EXCEPT !.is_damaged = Some(TRUE)] EXCEPT ![k] = f[k]]

\* The rows that satisfy every restricting field of f taken on its own.
Qualifying(d, f) ==
    {i \in 1..Len(d) :
        \A k \in DOMAIN f \ {"sort_by", "limit"} : Mask(d[i], Isolated(f, k))}

\* C18 - Empty result is success, filters are never relaxed: a search with
\* valid filters returns, with no error; every returned row satisfies every
\* supplied field; when no row does, the result is the empty list (count 0
\* from the tool); and a limit that cuts nothing returns exactly the rows
\* that satisfy every field.
C18_EmptyIsSuccess ==
    Applied =>
        LET d == Val(df)
            f == Val(filters)
        IN  /\ ~HasRaised
            /\ ~response.error
            /\ Range(results_df) \subseteq Qualifying(d, f)
            /\ Len(response.vehicles) = Len(results_df)
            /\ Qualifying(d, f) = {} =>
                   /\ response.vehicles = <<>>
                   /\ op = "search_inventory" => response.count = Some(0)
            /\ f.limit >= Len(d) => Range(results_df) = Qualifying(d, f)

\* What the code does: as C18 for the searches that return; a search whose
\* model or cabin text is not a regular expression raises re.error instead
\* of returning the empty list.
C18_EmptyIsSuccessUnlessRaised ==
    Applied =>
        LET d == Val(df)
            f == Val(filters)
        IN  IF MaskRaises(f) THEN HasRaised /\ response.raised = "re.error"
            ELSE /\ ~HasRaised
                 /\ ~response.error
                 /\ Range(results_df) \subseteq Qualifying(d, f)
                 /\ Len(response.vehicles) = Len(results_df)
                 /\ Qualifying(d, f) = {} =>
                        /\ response.vehicles = <<>>
                        /\ op = "search_inventory" => response.count = Some(0)
                 /\ f.limit >= Len(d) => Range(results_df) = Qualifying(d, f)

-----------------------------------------------------------------------------
(* Claims about the store as a whole, checked under SpecLookup             *)

\* C19 - Grounding: every vehicle a search returns carries an id of the
\* store and is the record of the store row it stands for, no store row is
\* returned twice, and no id is returned more often than the store has rows
\* with it.
C19_Grounding ==
    Searched =>
        LET d == load_inventory(csv_file)
        IN  /\ Len(response.vehicles) = Len(results_df)
            /\ \A k \in 1..Len(results_df) :
                   /\ results_df[k] \in 1..Len(d)
                   /\ response.vehicles[k].vehicle_id = d[results_df[k]].vehicle_id
                   /\ response.vehicles[k].vehicle_id \in StoreIds
                   /\ response.vehicles[k].brand = d[results_df[k]].brand
                   /\ response.vehicles[k].power = d[results_df[k]].power
            /\ \A j, k \in 1..Len(results_df) :
                   j # k => results_df[j] # results_df[k]
            /\ \A x \in StoreIds :
                   Cardinality({k \in 1..Len(response.vehicles) :
                                   response.vehicles[k].vehicle_id = x})
                       <= Cardinality({i \in 1..Len(d) : d[i].vehicle_id = x})

\* A search over a store whose two rows carry the same id, both returned,
\* each once.
C19_Witness ==
    /\ Searched
    /\ Len(csv_file) = 2
    /\ csv_file[1].vehicle_id = csv_file[2].vehicle_id
    /\ Len(response.vehicles) = 2
    /\ results_df[1] # results_df[2]

\* C20 - Idempotence and read-only store: no operation changes the file or
\* a loaded store, whose rows are those of the normalised file in file
\* order; and the output of every search is the output of that search on
\* the store as loaded, whatever ran before it, so that the same search
\* repeated gives the same records in the same order.
C20_Idempotent ==
    [][/\ csv_file' = csv_file
       /\ df # None => df' = df
       /\ df' # None => df' = Some(load_inventory(csv_file))
       /\ Searched' =>
              LET d == load_inventory(csv_file)
                  rows == _apply_filters(d, Val(filters'), numpy_build)
              IN  /\ results_df' = rows
                  /\ response'.vehicles =
                         [k \in 1..Len(rows) |-> _row_to_tractor_head(d[rows[k]])]
       /\ (Searched /\ Searched' /\ filters' = filters) =>
              /\ results_df' = results_df
              /\ response'.vehicles = response.vehicles]_vars

\* A search that returns two rows in an order other than the store's, the
\* store still being the normalised file in file order.
C20_Witness ==
    /\ Searched
    /\ Len(results_df) = 2
    /\ results_df[1] > results_df[2]
    /\ df = Some(load_inventory(csv_file))

-----------------------------------------------------------------------------
(* Claims about ingestion, checked under SpecIngest                        *)

SourceLabels == {T_AUTOMAAT, T_HANDGESCHAKELD, T_HALFAUTOMAAT}

\* C21 - Gearbox normalization: in a loaded store no gearbox value is one of
\* the source-language labels AUTOMAAT, HANDGESCHAKELD, HALFAUTOMAAT in any
\* case or padding; a raw label is stored as automatic, manual or
\* semi-automatic respectively, every other known raw value is stored trimmed
\* and lower-cased, and a missing raw value is stored as unknown.
C21_GearboxNormalized ==
    df # None =>
        /\ Len(Val(df)) = Len(csv_file)
        /\ \A i \in 1..Len(csv_file) :
              LET raw    == csv_file[i].gearbox
                  stored == Val(df)[i].gearbox
              IN  /\ raw = None => stored = None
                  /\ raw # None =>
                        LET key == Upper(Strip(Val(raw)))
                        IN  /\ key = T_AUTOMAAT => stored = Some(T_automatic)
                            /\ key = T_HANDGESCHAKELD => stored = Some(T_manual)
                            /\ key = T_HALFAUTOMAAT => stored = Some(T_semi_automatic)
                            /\ key \notin SourceLabels =>
                                  stored = Some(Lower(Strip(Val(raw))))
                  /\ stored # None => Upper(Strip(Val(stored))) \notin SourceLabels

\* A loaded store of two rows: a padded lower-case "automaat" stored as
\* automatic, and a padded mixed-case "Automatic" stored trimmed and
\* lower-cased.
C21_Witness ==
    /\ df # None
    /\ Len(csv_file) = 2
    /\ csv_file[1].gearbox = Some(T_automaat_padded)
    /\ Val(df)[1].gearbox = Some(T_automatic)
    /\ csv_file[2].gearbox = Some(T_Automatic_padded)
    /\ Val(df)[2].gearbox = Some(T_automatic)
    /\ op = "search_inventory_direct"

\* A raw flag cell that carries no value: missing, or the empty text.
MissingCell(c) == c.kind = "nan" \/ (c.kind = "text" /\ c.s = <<>>)

\* C30 - Tri-state boolean parsing at ingestion: in a loaded store every flag
\* column (is_new, is_damaged, retarder, has_airco, has_hydraulics) holds
\* true, false or unknown; a missing or empty raw value is stored as unknown,
\* a boolean as itself, the texts true, 1 and yes (in any case, trimmed) as
\* true, every other non-empty text as false, and unknown is stored only for
\* a missing or empty raw value.
C30_TriStateParsing ==
    df # None =>
        \A i \in 1..Len(csv_file) : \A col \in FlagColumns :
            LET raw    == csv_file[i][col]
                stored == Val(df)[i][col]
            IN  /\ stored \in TriBool
                /\ MissingCell(raw) <=> stored = None
                /\ raw.kind = "bool" => stored = Some(raw.b)
                /\ (raw.kind = "text" /\ raw.s # <<>>) =>
                      stored = Some(Lower(Strip(raw.s)) \in {T_true, T_1, T_yes})

\* A loaded store of two rows: the padded text " TRUE " stored as true in
\* the hydraulics column of the first, and a missing damaged flag stored as
\* unknown in the second.
C30_Witness ==
    /\ df # None
    /\ Len(csv_file) = 2
    /\ csv_file[1].has_hydraulics = Text(T_TRUE_padded)
    /\ Val(df)[1].has_hydraulics = Some(TRUE)
    /\ csv_file[2].is_damaged = NaN
    /\ Val(df)[2].is_damaged = None
    /\ op = "load_inventory"

-----------------------------------------------------------------------------
(* Claims about the conjunction of the predicates, checked under SpecTool  *)

\* The constraints a filter supplies: the fields that differ from not given.
Supplied(f) ==
    {k \in DOMAIN f \ {"is_damaged", "sort_by", "limit"} : f[k] # None}

\* The filter that keeps the constraint k of f and f's damaged setting, and
\* nothing else.
Alone(f, k) ==
    [DefaultFilters EXCEPT !.is_damaged = f.is_damaged, ![k] = f[k]]

\* The rows a search by g selects before sorting and truncation.
Untruncated(d, g) == Range(_apply_filters(d, [g EXCEPT !.limit = Len(d)], numpy_build))

\* C22 - Predicates are independently conjunctive: the rows that qualify for
\* a search before truncation are exactly the rows that qualify under each
\* supplied constraint taken alone with the same damaged setting (all rows
\* passing the damaged setting when no constraint is supplied), and the
\* returned rows are among them.
C22_Conjunctive ==
    Searched =>
        LET d == Val(df)
            f == Val(filters)
            each == {i \in 1..Len(d) :
                        /\ i \in Untruncated(d, Alone(f, "limit"))
                        /\ \A k \in Supplied(f) : i \in Untruncated(d, Alone(f, k))}
        IN  /\ Untruncated(d, f) = each
            /\ Range(results_df) \subseteq each

\* A search for DAF vehicles of at most 2 HP over a store whose second row
\* passes the power bound alone but carries no brand: only the first row
\* qualifies.
C22_Witness ==
    /\ Searched
    /\ Val(filters).brand = Some(T_DAF)
    /\ Val(filters).max_power = Some(2)
    /\ Len(Val(df)) = 2
    /\ Untruncated(Val(df), Alone(Val(filters), "max_power")) = {1, 2}
    /\ Untruncated(Val(df), Alone(Val(filters), "brand")) = {1}
    /\ results_df = <<1>>

-----------------------------------------------------------------------------
(* Claims about equal sort keys, checked under SpecOrder                   *)

\* C23 - Stable sort: any two returned rows with equal values on the active
\* sort dimension (both unknown, or both zero-priced under price ascending,
\* included) appear in the result in their relative order in the store.
\* Stated of the build whose argsort is numpy's scalar quicksort; a
\* vectorised build leaves equal keys in an order of its own.
C23_StableSort ==
    (Searched /\ ~numpy_build.simd) =>
        LET d == Val(df)
            f == Val(filters)
        IN  \A a, b \in 1..Len(results_df) :
                (a < b /\ SortKey(d[results_df[a]], f) = SortKey(d[results_df[b]], f))
                    => results_df[a] < results_df[b]

\* The part of C23 that holds for a store of any length: returned rows
\* whose sort value is unknown (or zero under price ascending) are in store
\* order.
C23_UnknownsInStoreOrder ==
    Searched =>
        LET d == Val(df)
            f == Val(filters)
        IN  \A a, b \in 1..Len(results_df) :
                (/\ a < b
                 /\ SortKey(d[results_df[a]], f) = None
                 /\ SortKey(d[results_df[b]], f) = None)
                    => results_df[a] < results_df[b]

-----------------------------------------------------------------------------
(* Claims about undeclared payload keys, checked under SpecTool            *)

\* A tool search whose payload is a JSON object with a key that is not a
\* field of SearchFilters.
UnknownKey ==
    /\ op = "search_inventory"
    /\ request.j = "object"
    /\ DOMAIN request.fields \ DOMAIN DefaultFilters # {}

\* C26 - Unknown filter keys are rejected: a tool search whose payload holds
\* a key that is not a recognized filter field answers with a validation
\* error, count 0 and no vehicles.
C26_UnknownKeysRejected ==
    UnknownKey =>
        /\ response.error
        /\ response.count = Some(0)
        /\ response.vehicles = <<>>

\* What the tool does with such a payload: when its declared fields are
\* valid it searches by them, the undeclared key ignored.
C26_UnknownKeysIgnored ==
    (UnknownKey /\ ~Raises(JObject([k \in Declared(request.fields) |-> request.fields[k]])))
        => /\ ~response.error
           /\ filters = Some(ParseFilters(
                  JObject([k \in Declared(request.fields) |-> request.fields[k]])))
           /\ results_df = _apply_filters(Val(df), Val(filters), numpy_build)

-----------------------------------------------------------------------------
(* Claims about the default sort key, checked under SpecSortKey            *)

RecognizedKeys == {"price_desc", "mileage_asc", "power_desc"}

\* A price that is known and not zero.
Priced(row) == row.internet_price # None /\ Val(row.internet_price) # 0

\* C27 - Sort key defaulting: a search whose sort_by is absent, null, or any
\* text other than price_desc, mileage_asc and power_desc returns without
\* an error exactly what the search by price_asc returns: the records of
\* known non-zero price in ascending price order, then those of zero or
\* unknown price.
C27_SortDefault ==
    (Searched /\ (Val(filters).sort_by = None
                    \/ Val(Val(filters).sort_by) \notin RecognizedKeys)) =>
        LET d == Val(df)
            f == Val(filters)
        IN  /\ ~response.error
            /\ Len(response.vehicles) = Len(results_df)
            /\ Range(results_df) =
                   Range(_apply_filters(d, [f EXCEPT !.sort_by = Some("price_asc")],
                                        numpy_build))
            /\ \A a, b \in 1..Len(results_df) :
                   (a < b /\ Priced(d[results_df[b]])) =>
                       /\ Priced(d[results_df[a]])
                       /\ Val(d[results_df[a]].internet_price)
                              <= Val(d[results_df[b]].internet_price)

\* A tool search with the unrecognized sort_by "newest" over the store of
\* prices [0, 30000, 10000]: no error, and the rows come back as
\* 10000, 30000, 0.
C27_Witness ==
    /\ op = "search_inventory"
    /\ filters # None
    /\ Val(filters).sort_by = Some("newest")
    /\ ~response.error
    /\ Len(Val(df)) = 3
    /\ Prices(Val(df)) = <<Some(0), Some(30000), Some(10000)>>
    /\ results_df = <<3, 2, 1>>

-----------------------------------------------------------------------------
(* Claims about loading under concurrency, checked under SpecLoad          *)

\* Whether a frame is the file with every normalisation step applied, the
\* text columns compared first.
FullyNormalized(frame) ==
    /\ Len(frame) = Len(csv_file)
    /\ \A i \in 1..Len(frame) :
          /\ frame[i].gearbox = NormGearbox(csv_file[i].gearbox)
          /\ frame[i].fuel = NormLower(csv_file[i].fuel)
          /\ frame[i].brand = NormUpper(csv_file[i].brand)
          /\ frame[i].cabin = NormUpper(csv_file[i].cabin)
          /\ frame[i].configuration = NormUpper(csv_file[i].configuration)
          /\ frame[i].model = NormUpper(csv_file[i].model)
    /\ frame = load_inventory(csv_file)

\* C24 - Readiness gate: under every interleaving of load_inventory calls
\* and queries, the frame a query obtains from get_dataframe is present and
\* fully normalized, and the shared store reference is either absent or a
\* fully normalized frame: it is published only after the last
\* normalization step.
C24_ReadinessGate ==
    /\ df # None => FullyNormalized(Val(df))
    /\ \A t \in Queries :
          calls[t].pc = "done" =>
              /\ calls[t].frame # None
              /\ FullyNormalized(Val(calls[t].frame))

\* A query has loaded the store itself and obtained its frame while the
\* startup load is still normalising its own, unpublished local frame.
C24_Witness ==
    /\ calls["q1"].pc = "done"
    /\ calls["q1"].frame # None
    /\ calls[Startup].pc = "brand"
    /\ reads = 2

\* C25 - Single ingestion: over every interleaving of the startup load and
\* queries the inventory is read and normalized at most once, and exactly
\* once when a store is published.
C25_SingleIngestion ==
    /\ reads <= 1
    /\ df # None => reads = 1

\* The part of C25 the code keeps: a get_dataframe call that finds a store
\* published goes to its return statement and reads nothing.
C25_LoadedStoreIsReused ==
    [][\A t \in Queries :
          (df # None /\ calls[t].pc = "idle" /\ calls'[t].pc # "idle")
              => (calls'[t].pc = "return" /\ reads' = reads)]_vars

-----------------------------------------------------------------------------
(* Claims about the agent graph and the chat endpoint, checked under       *)
(* SpecAgent                                                               *)

\* Whether the latest message carries at least one tool call.
LatestHasToolCalls(msgs) == Len(msgs[Len(msgs)].tool_calls) >= 1

\* The step is a node ending in an exception: graph.invoke is left with
\* it, no node is next and chat answers with status 500.
NodeRaises == op' = "chat_failed"

\* C28 - Agent loop routing: a chat invocation starts at the chatbot node;
\* after a chatbot step the tools node is next if and only if the chatbot's
\* latest message carries at least one tool call, and the run ends
\* otherwise; after a tools step the chatbot node is next; so the run ends
\* only directly after a chatbot step whose message has no tool calls, and
\* the tools node never runs twice in a row. A step is a node that returns:
\* a node that ends in an exception is followed by no node, the invocation
\* is over.
C28_LoopRouting ==
    [][/\ (node = "idle" /\ node' # "idle") => node' = "chatbot"
       /\ (node = "chatbot" /\ ~NodeRaises) =>
              /\ messages'[Len(messages')].type = "ai"
              /\ LatestHasToolCalls(messages') => node' = "tools"
              /\ ~LatestHasToolCalls(messages') => node' = END
       /\ (node = "tools" /\ ~NodeRaises) => node' = "chatbot"
       /\ NodeRaises => node' = "idle" /\ messages' = messages
       /\ (node' = END /\ node # END) =>
              /\ node = "chatbot"
              /\ ~LatestHasToolCalls(messages')
       /\ (node' = "tools" /\ node # "tools") => node = "chatbot"]_vars

\* A run that has ended after a tools step: human, AI with a tool call, the
\* tool's message, AI without tool calls.
C28_Witness ==
    /\ node = END
    /\ Len(messages) = 4
    /\ messages[2].type = "ai"
    /\ messages[2].tool_calls # <<>>
    /\ messages[3].type = "tool"
    /\ messages[4].type = "ai"
    /\ messages[4].tool_calls = <<>>

\* The positions of the messages produced by one of the three tools.
ToolPositions == {i \in 1..Len(messages) :
                     messages[i].type = "tool" /\ messages[i].name \in TOOLS}

\* The most recent of them.
LastToolMessage == messages[CHOOSE i \in ToolPositions : \A j \in ToolPositions : j <= i]

\* The vehicles a tool message carries: its single vehicle for a detail
\* lookup, its vehicles otherwise; none for an error or unparseable content.
VehiclesOf(msg) ==
    IF ~msg.parses THEN <<>>
    ELSE IF "error" \in DOMAIN msg.data THEN <<>>
    ELSE IF msg.name = "get_vehicle_details" THEN <<msg.data>>
    ELSE msg.data.vehicles

\* C29 - Vehicle cards come from the last tool message only: the cards of a
\* chat response are the cards of all the vehicles of the most recent
\* message produced by search_inventory, compare_vehicles or
\* get_vehicle_details (its single vehicle for a detail lookup), and the
\* list is empty when there is no such message or the most recent one is an
\* error or unparseable.
C29_CardsFromLastToolMessage ==
    op = "chat" =>
        IF ToolPositions = {} THEN cards = <<>>
        ELSE LET vehicles == VehiclesOf(LastToolMessage)
             IN  cards = [k \in 1..Len(vehicles) |-> _dict_to_card(vehicles[k])]

\* What the endpoint does: as C29, except that for a search or a comparison
\* a vehicle whose vehicle_id is 0 gets no card.
C29_CardsSkipIdZero ==
    op = "chat" =>
        IF ToolPositions = {} THEN cards = <<>>
        ELSE LET vehicles == VehiclesOf(LastToolMessage)
                 kept == IF LastToolMessage.name = "get_vehicle_details"
                         THEN vehicles
                         ELSE SelectSeq(vehicles, LAMBDA v : v.vehicle_id # 0)
             IN  cards = [k \in 1..Len(kept) |-> _dict_to_card(kept[k])]

====
